---- MODULE Spec2Model ----
(***************************************************************************)
(* Model of package market (src/market/data.go): the Hyperliquid           *)
(* open-interest cache (getHyperliquidOpenInterestData) run by concurrent   *)
(* goroutines, and the snapshot assembler Get with its upstream calls.      *)
(*                                                                          *)
(* Numbers: float64 open-interest values are fixed-point integers in        *)
(* thousandths, so oi * 0.999 is (oi * 999) \div 1000.  Strings that the    *)
(* code transforms (symbols) are sequences of tokens, so that ToUpper,      *)
(* HasSuffix and concatenation are computed and not assumed.                *)
(***************************************************************************)
EXTENDS Integers, Sequences, FiniteSets, TLC

VARIABLES
    hyperliquidOICache,      \* map symbol -> OI (data.go:20)
    hyperliquidOICacheTime,  \* time of the last refresh (data.go:21)
    mu,                      \* hyperliquidOICacheMu: [readers, writer] (data.go:22)
    now,                     \* wall clock, seconds
    pc,                      \* per goroutine: position in the lookup
    sym,                     \* per goroutine: the symbol being looked up
    respIdx,                 \* per goroutine: the upstream response received
    result,                  \* per goroutine: (*OIData, error) returned
    calls,                   \* history: number of upstream bulk calls issued
    everFailed,              \* history: some refresh attempt has failed
    failedSince,             \* history: a refresh failed and none has succeeded since
    lastInstalled,           \* history: <<table, time>> of the last completed refresh
    missed,                  \* history: a locked re-check found the table fresh without the symbol
    afterFail,               \* history: lookup began after a failure, no success since
    path,                    \* history: which return statement the lookup took
    defaultCoins,            \* the allow-set: keys of the map (data.go:16)
    gpc,                     \* position of the goroutine running Get
    gin,                     \* Get's arguments: [symbol (normalized), exchange]
    klines,                  \* Get's locals klines3m, klines15m, klines1h, klines4h
    oiData,                  \* Get's local oiData
    ret,                     \* what Get returned: [kind, data, err]
    glog,                    \* history of this Get: requests issued, outcomes, gate
    job,                     \* the arguments of the function under evaluation
    cpc,                     \* "ready" before the function is applied, "done" after
    out                      \* what the function returned

oiVars == <<hyperliquidOICache, hyperliquidOICacheTime, mu, now, pc, sym, respIdx,
            result, calls, everFailed, failedSince, lastInstalled, missed, afterFail,
            path>>

getVars == <<defaultCoins, gpc, gin, klines, oiData, ret, glog>>

calcVars == <<job, cpc, out>>

vars == <<oiVars, getVars, calcVars>>

----------------------------------------------------------------------------
(* Bounds *)

NProcs == 2          \* concurrent goroutines calling the lookup
MaxUpstream == 2     \* upstream bulk calls per behaviour
MaxTicks == 2        \* the clock advances this many times, half a freshness window each

Procs == 1..NProcs
NoProc == 0

----------------------------------------------------------------------------
(* Strings as token sequences *)

ToUpperTok(t) ==
    CASE t = "btc" -> "BTC"
      [] t = "eth" -> "ETH"
      [] t = "sol" -> "SOL"
      [] t = "usdt" -> "USDT"
      [] OTHER -> t

RECURSIVE ToUpper(_)
ToUpper(s) == IF s = <<>> THEN <<>> ELSE <<ToUpperTok(Head(s))>> \o ToUpper(Tail(s))

HasSuffixUSDT(s) == Len(s) > 0 /\ s[Len(s)] = "USDT"

\* Normalize: upper-case, then append USDT unless already so suffixed
Normalize(s) ==
    LET u == ToUpper(s) IN IF HasSuffixUSDT(u) THEN u ELSE u \o <<"USDT">>

----------------------------------------------------------------------------
(* The open-interest cache *)

hyperliquidOICacheTTL == 30
ZeroTime == 0                          \* time.Time{} of the unset timestamp
StartTime == hyperliquidOICacheTTL     \* the process starts no earlier than one TTL after ZeroTime
EmptyTable == [s \in {} |-> 0]
NilErr == "nil"

OIData(latest, average) == [Latest |-> latest, Average |-> average]
Approx(oi) == (oi * 999) \div 1000     \* oi * 0.999
NilPtr == [nil |-> TRUE]
NoResult == [data |-> NilPtr, err |-> "none"]

\* time.Since(hyperliquidOICacheTime) < hyperliquidOICacheTTL
CacheValid == now - hyperliquidOICacheTime < hyperliquidOICacheTTL

(* JSON values of the bulk response, tagged by their dynamic type *)
JObj(f) == [t |-> "obj", v |-> f]
JArr(items) == [t |-> "arr", v |-> items]
JStr(s) == [t |-> "str", v |-> s]
JNum(n) == [t |-> "num", v |-> n]
NumStr(n) == [ok |-> TRUE, n |-> n]      \* a string strconv.ParseFloat accepts
BadStr == [ok |-> FALSE, n |-> 0]        \* a string it rejects
UItem(name) == JObj([k \in {"name"} |-> JStr(name)])
CItem(oi) == JObj([k \in {"openInterest"} |-> JStr(oi)])
Meta(items) == JObj([k \in {"universe"} |-> JArr(items)])
Http(transport, read, status, json, body) ==
    [transport |-> transport, read |-> read, status |-> status, json |-> json, body |-> body]
Good(body) == Http("ok", "ok", 200, "ok", body)

BTC == <<"BTC">>
ETH == <<"ETH">>

\* The upstream responses the model draws from, by index
ResponseIds == 1..13
Response(i) ==
    CASE i = 1 -> Good(<<Meta(<<UItem(BTC), UItem(ETH)>>),
                         JArr(<<CItem(NumStr(5000)), CItem(NumStr(7000))>>)>>)
      [] i = 2 -> Good(<<Meta(<<UItem(BTC), UItem(<<"eth">>)>>),
                         JArr(<<CItem(NumStr(5000)), CItem(BadStr)>>)>>)
      [] i = 3 -> Good(<<Meta(<<UItem(BTC), JStr(ETH), UItem(ETH), UItem(BTC)>>),
                         JArr(<<CItem(NumStr(2000)), CItem(NumStr(1000)), JNum(3),
                                CItem(NumStr(6000))>>)>>)
      [] i = 4 -> Http("err", "ok", 200, "ok", <<>>)
      [] i = 5 -> Http("ok", "err", 200, "ok", <<>>)
      [] i = 6 -> Http("ok", "ok", 500, "ok",
                       <<Meta(<<UItem(BTC)>>), JArr(<<CItem(NumStr(9000))>>)>>)
      [] i = 7 -> Http("ok", "ok", 200, "bad", <<>>)
      [] i = 8 -> Good(<<Meta(<<UItem(BTC)>>)>>)
      [] i = 9 -> Good(<<JStr(BTC), JArr(<<CItem(NumStr(9000))>>)>>)
      [] i = 10 -> Good(<<JObj([k \in {"universe"} |-> JStr(BTC)]),
                          JArr(<<CItem(NumStr(9000))>>)>>)
      [] i = 11 -> Good(<<JObj([k \in {"meta"} |-> JArr(<<UItem(BTC)>>)]),
                          JArr(<<CItem(NumStr(9000))>>)>>)
      [] i = 12 -> Good(<<Meta(<<UItem(BTC)>>), JObj([k \in {"openInterest"} |-> JStr(BTC)])>>)
      [] OTHER -> Good(<<Meta(<<UItem(BTC), UItem(ETH)>>), JArr(<<CItem(NumStr(9000))>>)>>)

\* v.(map[string]interface{}), v.([]interface{}), v.(string) with the ok flag
IsMap(v) == v.t = "obj"
IsArr(v) == v.t = "arr"
IsStr(v) == v.t = "str"
\* m[key].(T): a missing key yields nil, which no type assertion accepts
FieldIs(m, key, tag) == key \in DOMAIN m.v /\ m.v[key].t = tag

\* The checks of the refresh path in the order the code makes them; NilErr when all pass
RefreshError(r) ==
    IF r.transport # "ok" THEN "request"
    ELSE IF r.read # "ok" THEN "read"
    ELSE IF r.status # 200 THEN "status"
    ELSE IF r.json # "ok" THEN "json"
    ELSE IF Len(r.body) < 2 THEN "format"
    ELSE IF ~IsMap(r.body[1]) THEN "universe"
    ELSE IF ~FieldIs(r.body[1], "universe", "arr") THEN "universeArray"
    ELSE IF ~IsArr(r.body[2]) THEN "assetCtxs"
    ELSE IF Len(r.body[1].v["universe"].v) # Len(r.body[2].v) THEN "length"
    ELSE NilErr

\* The loop that fills newCache: malformed entries are skipped, later entries overwrite
RECURSIVE FillCache(_, _, _, _)
FillCache(universe, assetCtxs, i, acc) ==
    IF i > Len(universe) THEN acc
    ELSE LET u == universe[i]
             c == assetCtxs[i]
             skip == \/ ~IsMap(u)
                     \/ ~IsMap(c)
                     \/ ~FieldIs(u, "name", "str")
                     \/ ~FieldIs(c, "openInterest", "str")
                     \/ ~c.v["openInterest"].v.ok
         IN IF skip THEN FillCache(universe, assetCtxs, i + 1, acc)
            ELSE LET symbolHL == Normalize(u.v["name"].v \o <<"USDT">>)
                     oi == c.v["openInterest"].v.n
                 IN FillCache(universe, assetCtxs, i + 1,
                              [s \in DOMAIN acc \cup {symbolHL} |->
                                  IF s = symbolHL THEN oi ELSE acc[s]])

BuildCache(r) == FillCache(r.body[1].v["universe"].v, r.body[2].v, 1, EmptyTable)

\* if oi, exists := hyperliquidOICache[symbol]; exists { return &OIData{...}, nil }
Hit(table, s) == [data |-> OIData(table[s], Approx(table[s])), err |-> NilErr]
\* the final return after a refresh that did not list the symbol
NotFound == [data |-> OIData(0, 0), err |-> NilErr]
\* return nil, fmt.Errorf(...): the callers test only err != nil
Failed(e) == [data |-> NilPtr, err |-> "error"]

\* Symbols the callers look up (Get passes normalized symbols)
LookupSymbols == {Normalize(BTC), Normalize(<<"eth">>)}

----------------------------------------------------------------------------
(* sync.RWMutex *)

CanRLock == mu.writer = NoProc
\* variant: Lock does not wait for the readers to leave
CanLock_IgnoreReaders == mu.writer = NoProc
CanLock == mu.writer = NoProc /\ mu.readers = {}

----------------------------------------------------------------------------
(* getHyperliquidOpenInterestData, one action per step of a goroutine *)

\* The process starts cold (empty table, zero timestamp), or is met when the table
\* installed by an earlier refresh has just expired
InitialCaches ==
    {<<EmptyTable, ZeroTime>>,
     <<BuildCache(Response(1)), StartTime - hyperliquidOICacheTTL>>}

\* a goroutine (idle, or back from an earlier call) enters the function with a symbol
\* and takes the read lock: hyperliquidOICacheMu.RLock()
Call(p, s) ==
    /\ pc[p] \in {"idle", "done"}
    /\ CanRLock
    /\ mu' = [mu EXCEPT !.readers = @ \cup {p}]
    /\ pc' = [pc EXCEPT ![p] = "rcheck"]
    /\ sym' = [sym EXCEPT ![p] = s]
    /\ result' = [result EXCEPT ![p] = NoResult]
    /\ afterFail' = [afterFail EXCEPT ![p] = failedSince]
    /\ path' = [path EXCEPT ![p] = "none"]
    /\ UNCHANGED <<hyperliquidOICache, hyperliquidOICacheTime, now, respIdx, calls,
                   everFailed, failedSince, lastInstalled, missed>>

\* variant: the fast path serves any table that lists the symbol, fresh or not
FastPathHit_ServeStale(valid, table, s) == s \in DOMAIN table

\* the test of the fast path: cacheValid and the symbol exists
FastPathHit(valid, table, s) == valid /\ s \in DOMAIN table

\* the read section: compute cacheValid, look the symbol up, RUnlock on either branch
RCheck(p) ==
    /\ pc[p] = "rcheck"
    /\ mu' = [mu EXCEPT !.readers = @ \ {p}]
    /\ IF FastPathHit(CacheValid, hyperliquidOICache, sym[p])
       THEN /\ result' = [result EXCEPT ![p] = Hit(hyperliquidOICache, sym[p])]
            /\ pc' = [pc EXCEPT ![p] = "done"]
            /\ path' = [path EXCEPT ![p] = "fast"]
       ELSE /\ pc' = [pc EXCEPT ![p] = "lock"]
            /\ UNCHANGED <<result, path>>
    /\ UNCHANGED <<hyperliquidOICache, hyperliquidOICacheTime, now, sym, respIdx, calls,
                   everFailed, failedSince, lastInstalled, missed, afterFail>>

\* hyperliquidOICacheMu.Lock(); defer Unlock()
Lock(p) ==
    /\ pc[p] = "lock"
    /\ CanLock
    /\ calls < MaxUpstream
    /\ mu' = [mu EXCEPT !.writer = p]
    /\ pc' = [pc EXCEPT ![p] = "wcheck"]
    /\ UNCHANGED <<hyperliquidOICache, hyperliquidOICacheTime, now, sym, respIdx, result,
                   calls, everFailed, failedSince, lastInstalled, missed, afterFail, path>>

\* variant: the exclusive section does not look at the cache again
DoubleCheckHit_NoRecheck(valid, table, s) == FALSE

\* the double check made under the exclusive lock
DoubleCheckHit(valid, table, s) == valid /\ s \in DOMAIN table

\* double check; on a miss the request is built and client.Post is called
WCheck(p) ==
    /\ pc[p] = "wcheck"
    /\ IF DoubleCheckHit(CacheValid, hyperliquidOICache, sym[p])
       THEN /\ result' = [result EXCEPT ![p] = Hit(hyperliquidOICache, sym[p])]
            /\ pc' = [pc EXCEPT ![p] = "done"]
            /\ path' = [path EXCEPT ![p] = "double"]
            /\ mu' = [mu EXCEPT !.writer = NoProc]
            /\ UNCHANGED calls
       ELSE /\ pc' = [pc EXCEPT ![p] = "inflight"]
            /\ calls' = calls + 1
            /\ UNCHANGED <<result, path, mu>>
    /\ missed' = (missed \/ (CacheValid /\ sym[p] \notin DOMAIN hyperliquidOICache))
    /\ UNCHANGED <<hyperliquidOICache, hyperliquidOICacheTime, now, sym, respIdx,
                   everFailed, failedSince, lastInstalled, afterFail>>

\* variant: a failed refresh drops the table
TableAfterFailure_Cleared(table) == EmptyTable

\* what an error return of the refresh path leaves in the cache: nothing is written
TableAfterFailure(table) == table
\* variant: a return path that leaves the exclusive lock held
WriterAfterReturn_Held(p) == p

\* the deferred Unlock runs on every return
WriterAfterReturn(p) == NoProc

\* client.Post returns: the upstream's answer is in hand
Receive(p, i) ==
    /\ pc[p] = "inflight"
    /\ respIdx' = [respIdx EXCEPT ![p] = i]
    /\ pc' = [pc EXCEPT ![p] = "parse"]
    /\ UNCHANGED <<hyperliquidOICache, hyperliquidOICacheTime, mu, now, sym, result, calls,
                   everFailed, failedSince, lastInstalled, missed, afterFail,
                   path>>

\* every check up to the length test; when all pass newCache is built and assigned
\* to hyperliquidOICache, otherwise the function returns the error
Parse(p) ==
    /\ pc[p] = "parse"
    /\ LET r == Response(respIdx[p])
           e == RefreshError(r)
       IN IF e # NilErr
          THEN /\ result' = [result EXCEPT ![p] = Failed(e)]
               /\ pc' = [pc EXCEPT ![p] = "done"]
               /\ path' = [path EXCEPT ![p] = "error"]
               /\ mu' = [mu EXCEPT !.writer = WriterAfterReturn(p)]
               /\ hyperliquidOICache' = TableAfterFailure(hyperliquidOICache)
               /\ respIdx' = [respIdx EXCEPT ![p] = 0]
               /\ everFailed' = TRUE
               /\ failedSince' = TRUE
          ELSE /\ hyperliquidOICache' = BuildCache(r)
               /\ pc' = [pc EXCEPT ![p] = "settime"]
               /\ UNCHANGED <<result, path, mu, respIdx, everFailed, failedSince>>
    /\ UNCHANGED <<hyperliquidOICacheTime, now, sym, calls, lastInstalled, missed,
                   afterFail>>

\* variant: a symbol missing after the refresh is reported as an error
AfterRefresh_ErrorWhenAbsent(table, s) == IF s \in DOMAIN table THEN Hit(table, s) ELSE Failed("absent")

\* the lookup that follows a successful refresh
AfterRefresh(table, s) == IF s \in DOMAIN table THEN Hit(table, s) ELSE NotFound

\* hyperliquidOICacheTime = time.Now(), the final lookup, return (deferred Unlock)
SetTime(p) ==
    /\ pc[p] = "settime"
    /\ hyperliquidOICacheTime' = now
    /\ result' = [result EXCEPT ![p] = AfterRefresh(hyperliquidOICache, sym[p])]
    /\ pc' = [pc EXCEPT ![p] = "done"]
    /\ path' = [path EXCEPT ![p] = "refresh"]
    /\ mu' = [mu EXCEPT !.writer = WriterAfterReturn(p)]
    /\ lastInstalled' = <<BuildCache(Response(respIdx[p])), now>>
    /\ failedSince' = FALSE
    /\ afterFail' = [q \in Procs |-> FALSE]
    /\ respIdx' = [respIdx EXCEPT ![p] = 0]
    /\ UNCHANGED <<hyperliquidOICache, now, sym, calls, everFailed, missed>>

TickStep == hyperliquidOICacheTTL \div 2

\* time passes
Tick ==
    /\ now + TickStep <= StartTime + MaxTicks * TickStep
    /\ now' = now + TickStep
    /\ UNCHANGED <<hyperliquidOICache, hyperliquidOICacheTime, mu, pc, sym, respIdx,
                   result, calls, everFailed, failedSince, lastInstalled, missed, afterFail, path>>

----------------------------------------------------------------------------
(* Get and its upstream calls *)

\* SetDefaultCoins: a fresh map holding Normalize(coin) for every coin of the list
RECURSIVE NormalizedSet(_)
NormalizedSet(coins) ==
    IF coins = <<>> THEN {} ELSE {Normalize(Head(coins))} \cup NormalizedSet(Tail(coins))

\* variant: an empty allow-set admits nothing
isInDefaultCoins_NoEmptyCase(set, symbol) == Normalize(symbol) \in set

\* isInDefaultCoins: an empty map admits every symbol
isInDefaultCoins(set, symbol) ==
    IF Cardinality(set) = 0 THEN TRUE ELSE Normalize(symbol) \in set

(* A kline response body: rows of JSON values *)
JNull == [t |-> "null", v |-> 0]
GoodRow(t, o, h, l, c, vol) ==
    <<JNum(t), JStr(NumStr(o)), JStr(NumStr(h)), JStr(NumStr(l)), JStr(NumStr(c)),
      JStr(NumStr(vol)), JNum(t + 1)>>
Row1 == GoodRow(1, 100, 130, 90, 100, 5)
Row2 == GoodRow(2, 100, 130, 90, 125, 7)
Row3 == GoodRow(3, 125, 130, 90, 100, 6)

\* a row whose high is null and whose close is a string that is no number
OddRow == <<JNum(2), JStr(NumStr(100)), JNull, JStr(NumStr(90)), JStr(BadStr), JNum(7), JNum(3)>>
\* a row whose open time is a string
BadTimeRow == <<JStr(NumStr(1)), JStr(NumStr(100)), JStr(NumStr(130)), JStr(NumStr(90)),
                JStr(NumStr(100)), JStr(NumStr(5)), JNum(2)>>
\* a row that stops after the high
ShortRow == <<JNum(2), JStr(NumStr(100)), JStr(NumStr(130))>>

\* The answers the klines endpoint gives, by interval and index: 1..3 are lists
\* (possibly empty) that decode, the others are the failures
KlineResponseIds == 1..7
KlineResponse(tf, i) ==
    CASE i = 1 -> Good(<<Row1, Row2, Row3>>)
      [] i = 2 -> Good(<<>>)
      [] i = 3 -> IF tf = "3m" THEN Good(<<Row1, OddRow>>)
                  ELSE IF tf = "4h" THEN Good(<<Row1>>)
                  ELSE Good(<<Row1, Row2, Row3>>)
      [] i = 4 -> Http("err", "ok", 200, "ok", <<>>)
      [] i = 5 -> IF tf \in {"3m", "1h"} THEN Http("ok", "err", 200, "ok", <<>>)
                  ELSE Http("ok", "ok", 400, "bad", <<>>)
      [] i = 6 -> Good(<<BadTimeRow>>)
      [] OTHER -> Good(<<Row1, ShortRow>>)

\* parseFloat with the error dropped by its caller (open, _ := parseFloat(item[1])):
\* a string goes through strconv.ParseFloat (0 when rejected), a number is itself,
\* any other type gives 0
parseFloat(v) ==
    CASE v.t = "str" -> [val |-> IF v.v.ok THEN v.v.n ELSE 0, ok |-> TRUE]
      [] v.t = "num" -> [val |-> v.v, ok |-> TRUE]
      [] OTHER -> [val |-> 0, ok |-> TRUE]

Kline(item) ==
    [OpenTime |-> item[1].v, Open |-> parseFloat(item[2]).val, High |-> parseFloat(item[3]).val,
     Low |-> parseFloat(item[4]).val, Close |-> parseFloat(item[5]).val,
     Volume |-> parseFloat(item[6]).val, CloseTime |-> item[7].v]

\* item[0].(float64), item[6].(float64) and the indexing item[0..6] abort the
\* goroutine (run-time panic) on a short row or a value that is not a number
RowPanics(item) == Len(item) < 7 \/ item[1].t # "num" \/ item[7].t # "num"

\* getKlines: an error for a failed request, read or json.Unmarshal; a panic for a
\* row it cannot index or assert; else one Kline per row
getKlines(r) ==
    IF r.transport # "ok" \/ r.read # "ok" \/ r.json # "ok"
    THEN [kind |-> "err", klines |-> <<>>]
    ELSE IF \E i \in 1..Len(r.body) : RowPanics(r.body[i]) \/ \E j \in 2..6 : ~parseFloat(r.body[i][j]).ok
         THEN [kind |-> "panic", klines |-> <<>>]
         ELSE [kind |-> "ok", klines |-> [i \in 1..Len(r.body) |-> Kline(r.body[i])]]

(* The per-symbol open-interest and funding-rate endpoints *)
PlainResponseIds == 1..4
PlainResponse(i) ==
    CASE i = 1 -> Http("ok", "ok", 200, "ok", <<JStr(NumStr(12000))>>)
      [] i = 2 -> Http("err", "ok", 200, "ok", <<>>)
      [] i = 3 -> Http("ok", "ok", 200, "bad", <<>>)
      [] OTHER -> Http("ok", "ok", 200, "ok", <<JStr(BadStr)>>)

PlainFails(r) == r.transport # "ok" \/ r.read # "ok" \/ r.json # "ok"
\* strconv.ParseFloat with the error dropped
ParsedOrZero(str) == IF str.v.ok THEN str.v.n ELSE 0

\* getOpenInterestData
getOpenInterestData(r) ==
    IF PlainFails(r) THEN Failed("request")
    ELSE [data |-> OIData(ParsedOrZero(r.body[1]), Approx(ParsedOrZero(r.body[1]))),
          err |-> NilErr]

\* getFundingRate: (0, err) on failure, else the parsed rate
getFundingRate(r) ==
    IF PlainFails(r) THEN [rate |-> 0, err |-> "error"]
    ELSE [rate |-> ParsedOrZero(r.body[1]), err |-> NilErr]

\* variant: a failed open-interest request leaves the nil pointer in place
OrPlaceholder_KeepNil(res) == res.data

\* if err != nil { oiData = &OIData{Latest: 0, Average: 0} }
OrPlaceholder(res) == IF res.err # NilErr THEN OIData(0, 0) ELSE res.data

(* Indicators on a candle sequence; prices are fixed-point *)
RECURSIVE SumClose(_, _)
SumClose(ks, n) == IF n = 0 THEN 0 ELSE SumClose(ks, n - 1) + ks[n].Close

RECURSIVE EmaFrom(_, _, _, _)
EmaFrom(ks, period, i, ema) ==
    IF i > Len(ks) THEN ema
    ELSE EmaFrom(ks, period, i + 1, ((ks[i].Close - ema) * 2) \div (period + 1) + ema)

calculateEMA(ks, period) ==
    IF Len(ks) < period THEN 0
    ELSE EmaFrom(ks, period, period + 1, SumClose(ks, period) \div period)

calculateMACD(ks) ==
    IF Len(ks) < 26 THEN 0 ELSE calculateEMA(ks, 12) - calculateEMA(ks, 26)

RECURSIVE Gains(_, _)
Gains(ks, n) ==
    IF n < 2 THEN 0
    ELSE Gains(ks, n - 1) + (IF ks[n].Close > ks[n - 1].Close THEN ks[n].Close - ks[n - 1].Close ELSE 0)
RECURSIVE Losses(_, _)
Losses(ks, n) ==
    IF n < 2 THEN 0
    ELSE Losses(ks, n - 1) + (IF ks[n].Close > ks[n - 1].Close THEN 0 ELSE ks[n - 1].Close - ks[n].Close)

RECURSIVE Wilder(_, _, _, _)
Wilder(ks, period, i, avg) ==
    IF i > Len(ks) THEN avg
    ELSE LET change == ks[i].Close - ks[i - 1].Close
         IN Wilder(ks, period, i + 1,
                   IF change > 0
                   THEN [gain |-> (avg.gain * (period - 1) + change) \div period,
                         loss |-> (avg.loss * (period - 1)) \div period]
                   ELSE [gain |-> (avg.gain * (period - 1)) \div period,
                         loss |-> (avg.loss * (period - 1) - change) \div period])

\* variant: a series that never moved is neutral
RSIValue_FlatIsNeutral(ks, period) ==
    LET avg == Wilder(ks, period, period + 2,
                      [gain |-> Gains(ks, period + 1) \div period,
                       loss |-> Losses(ks, period + 1) \div period])
    IN IF avg.loss = 0 THEN (IF avg.gain = 0 THEN 50000 ELSE 100000)
       ELSE 100000 - (100000 * avg.loss) \div (avg.loss + avg.gain)

\* the initial averages, the Wilder smoothing and 100 - 100 / (1 + rs)
RSIValue(ks, period) ==
    LET avg == Wilder(ks, period, period + 2,
                      [gain |-> Gains(ks, period + 1) \div period,
                       loss |-> Losses(ks, period + 1) \div period])
    IN IF avg.loss = 0 THEN 100000
       ELSE 100000 - (100000 * avg.loss) \div (avg.loss + avg.gain)

\* variant: too short a sequence gives the neutral value
calculateRSI_NeutralWhenShort(ks, period) ==
    IF Len(ks) <= period THEN 50000 ELSE RSIValue(ks, period)

calculateRSI(ks, period) ==
    IF Len(ks) <= period THEN 0 ELSE RSIValue(ks, period)

\* trs[i] for the candle at 1-based position i >= 2
TrueRange(ks, i) ==
    LET tr1 == ks[i].High - ks[i].Low
        tr2 == IF ks[i].High >= ks[i - 1].Close THEN ks[i].High - ks[i - 1].Close
               ELSE ks[i - 1].Close - ks[i].High
        tr3 == IF ks[i].Low >= ks[i - 1].Close THEN ks[i].Low - ks[i - 1].Close
               ELSE ks[i - 1].Close - ks[i].Low
        m23 == IF tr2 >= tr3 THEN tr2 ELSE tr3
    IN IF tr1 >= m23 THEN tr1 ELSE m23

RECURSIVE SumTrueRange(_, _)
SumTrueRange(ks, n) == IF n < 2 THEN 0 ELSE SumTrueRange(ks, n - 1) + TrueRange(ks, n)

RECURSIVE AtrFrom(_, _, _, _)
AtrFrom(ks, period, i, atr) ==
    IF i > Len(ks) THEN atr
    ELSE AtrFrom(ks, period, i + 1, (atr * (period - 1) + TrueRange(ks, i)) \div period)

calculateATR(ks, period) ==
    IF Len(ks) <= period THEN 0
    ELSE AtrFrom(ks, period, period + 2, SumTrueRange(ks, period + 1) \div period)

\* ((currentPrice - past) / past) * 100 when the past close exists and is positive
PriceChange(ks, back, currentPrice) ==
    IF Len(ks) >= back + 1
    THEN LET past == ks[Len(ks) - back].Close
         IN IF past > 0 THEN ((currentPrice - past) * 100000) \div past ELSE 0
    ELSE 0

LastN(s, n) == IF Len(s) <= n THEN s ELSE SubSeq(s, Len(s) - n + 1, Len(s))
Closes(ks) == [i \in 1..Len(ks) |-> ks[i].Close]

\* the indicator appended to a series, by its name
Indicator(name, ks) ==
    CASE name = "EMA20" -> calculateEMA(ks, 20)
      [] name = "MACD" -> calculateMACD(ks)
      [] name = "RSI7" -> calculateRSI(ks, 7)
      [] OTHER -> calculateRSI(ks, 14)

\* variant: a value is appended at every index of the window
RECURSIVE SeriesFrom_EveryIndex(_, _, _, _)
SeriesFrom_EveryIndex(ks, i, minIdx, name) ==
    IF i > Len(ks) THEN <<>>
    ELSE <<Indicator(name, SubSeq(ks, 1, i))>> \o SeriesFrom_EveryIndex(ks, i + 1, minIdx, name)

\* the values an indicator takes at the indices of the last-10 window that have
\* at least minIdx candles before them (0-based index i >= minIdx)
RECURSIVE SeriesFrom(_, _, _, _)
SeriesFrom(ks, i, minIdx, name) ==
    IF i > Len(ks) THEN <<>>
    ELSE (IF i - 1 >= minIdx THEN <<Indicator(name, SubSeq(ks, 1, i))>> ELSE <<>>)
         \o SeriesFrom(ks, i + 1, minIdx, name)

WindowStart(ks) == IF Len(ks) - 10 < 0 THEN 1 ELSE Len(ks) - 10 + 1

calculateIntradaySeries(ks) ==
    [MidPrices |-> LastN(Closes(ks), 10),
     EMA20Values |-> SeriesFrom(ks, WindowStart(ks), 19, "EMA20"),
     MACDValues |-> SeriesFrom(ks, WindowStart(ks), 25, "MACD"),
     RSI7Values |-> SeriesFrom(ks, WindowStart(ks), 7, "RSI7"),
     RSI14Values |-> SeriesFrom(ks, WindowStart(ks), 14, "RSI14")]

RECURSIVE SumVolume(_, _)
SumVolume(ks, n) == IF n = 0 THEN 0 ELSE SumVolume(ks, n - 1) + ks[n].Volume

\* calculateLongerTermData without ATR3 and ATR14, which no property here reads
calculateLongerTermData(ks) ==
    [EMA20 |-> calculateEMA(ks, 20),
     EMA50 |-> calculateEMA(ks, 50),
     CurrentVolume |-> IF Len(ks) > 0 THEN ks[Len(ks)].Volume ELSE 0,
     AverageVolume |-> IF Len(ks) > 0 THEN SumVolume(ks, Len(ks)) \div Len(ks) ELSE 0,
     MACDValues |-> SeriesFrom(ks, WindowStart(ks), 25, "MACD"),
     RSI14Values |-> SeriesFrom(ks, WindowStart(ks), 14, "RSI14")]

\* calculateSupportResistanceSummary on candle lists shorter than the 7 candles an
\* extremum needs (findLocalMinima / findLocalMaxima scan i = 3 .. len-4): no level
\* is found, Timeframes stays empty, Confluence stays nil
ShortListSummary(k3m, k15m, k1h, k4h) == [Timeframes |-> {}, Confluence |-> NilPtr]

TfOrder == <<"3m", "15m", "1h", "4h">>
TfIndex(tf) == CHOOSE k \in 1..Len(TfOrder) : TfOrder[k] = tf
NoKlines == [tf \in {"3m", "15m", "1h", "4h"} |-> <<>>]

\* return &Data{...}, nil
Assemble(symbol, ks, oi, fundingRate) ==
    LET k3m == ks["3m"]
        currentPrice == k3m[Len(k3m)].Close
    IN [Symbol |-> symbol,
        CurrentPrice |-> currentPrice,
        PriceChange1h |-> PriceChange(k3m, 20, currentPrice),
        PriceChange4h |-> PriceChange(ks["4h"], 1, currentPrice),
        CurrentEMA20 |-> calculateEMA(k3m, 20),
        CurrentMACD |-> calculateMACD(k3m),
        CurrentRSI7 |-> calculateRSI(k3m, 7),
        OpenInterest |-> oi,
        FundingRate |-> fundingRate,
        IntradaySeries |-> calculateIntradaySeries(k3m),
        LongerTermContext |-> calculateLongerTermData(ks["4h"]),
        SupportResistance |-> ShortListSummary(k3m, ks["15m"], ks["1h"], ks["4h"])]

GetProc == 1                  \* the goroutine that runs Get
NoRet == [kind |-> "none", data |-> NilPtr, err |-> NilErr]
NoLog == [reqs |-> <<>>, failedTf |-> "none", oi |-> "none", funding |-> "none",
          gate |-> {}, bulkBefore |-> 0]

\* the raw symbols and exchange selectors Get is called with, and the coin lists
\* SetDefaultCoins is called with
RawSymbols == {<<"btc">>, <<"BTC", "USDT">>, <<"eth">>}
Exchanges == {"hyperliquid", "binance"}
CoinLists == {<<>>, <<<<"btc">>>>, <<<<"ETH", "USDT">>, <<"sol">>>>}

\* no function under evaluation
NoJob == [kind |-> "none"]

\* the state after package initialization, no call made yet
Init ==
    /\ \E c \in InitialCaches : hyperliquidOICache = c[1] /\ hyperliquidOICacheTime = c[2]
    /\ mu = [readers |-> {}, writer |-> NoProc]
    /\ now = StartTime
    /\ pc = [p \in Procs |-> "idle"]
    /\ sym = [p \in Procs |-> Normalize(BTC)]
    /\ respIdx = [p \in Procs |-> 0]
    /\ result = [p \in Procs |-> NoResult]
    /\ calls = 0
    /\ everFailed = FALSE
    /\ failedSince = FALSE
    /\ lastInstalled = <<hyperliquidOICache, hyperliquidOICacheTime>>
    /\ missed = FALSE
    /\ afterFail = [p \in Procs |-> FALSE]
    /\ path = [p \in Procs |-> "none"]
    /\ defaultCoins = {}
    /\ gpc = "idle"
    /\ gin = [symbol |-> Normalize(BTC), exchange |-> "binance"]
    /\ klines = NoKlines
    /\ oiData = NilPtr
    /\ ret = NoRet
    /\ glog = NoLog
    /\ job = NoJob
    /\ cpc = "ready"
    /\ out = NoJob

SetDefaultCoins(coins) ==
    /\ defaultCoins' = NormalizedSet(coins)
    /\ defaultCoins' # defaultCoins
    /\ UNCHANGED <<gpc, gin, klines, oiData, ret, glog>>
    /\ UNCHANGED <<oiVars, calcVars>>

\* symbol = Normalize(symbol)
GetStart(symbol, exchange) ==
    /\ gpc \in {"idle", "returned"}
    /\ gpc' = "3m"
    /\ gin' = [symbol |-> Normalize(symbol), exchange |-> exchange]
    /\ klines' = NoKlines
    /\ oiData' = NilPtr
    /\ ret' = NoRet
    /\ glog' = [NoLog EXCEPT !.bulkBefore = calls]
    /\ UNCHANGED defaultCoins
    /\ UNCHANGED <<oiVars, calcVars>>

\* variant: a failed candle fetch does not stop Get
AfterKlineError_Continue(tf) == IF tf = "4h" THEN "oi" ELSE TfOrder[TfIndex(tf) + 1]

\* variant: a failed candle fetch is tried again
AfterKlineError_Retry(tf) == tf

\* if err != nil { return nil, fmt.Errorf(...) }
AfterKlineError(tf) == "returned"

\* klinesX, err := getKlines(symbol, X, 150) and the test of err that follows
FetchKlines(i) ==
    /\ gpc \in {"3m", "15m", "1h", "4h"}
    /\ LET got == getKlines(KlineResponse(gpc, i))
       IN /\ glog' = [glog EXCEPT !.reqs = Append(@, gpc),
                                  !.failedTf = IF got.kind = "err" THEN gpc ELSE @]
          /\ CASE got.kind = "err" ->
                    /\ gpc' = AfterKlineError(gpc)
                    /\ ret' = IF gpc' = "returned"
                              THEN [kind |-> "error", data |-> NilPtr, err |-> gpc]
                              ELSE ret
                    /\ UNCHANGED klines
               [] got.kind = "panic" ->
                    /\ gpc' = "returned"
                    /\ ret' = [kind |-> "panic", data |-> NilPtr, err |-> NilErr]
                    /\ UNCHANGED klines
               [] OTHER ->
                    /\ gpc' = IF gpc = "4h" THEN "oi" ELSE TfOrder[TfIndex(gpc) + 1]
                    /\ klines' = [klines EXCEPT ![gpc] = got.klines]
                    /\ UNCHANGED ret
    /\ UNCHANGED <<defaultCoins, gin, oiData>>
    /\ UNCHANGED <<oiVars, calcVars>>

\* currentPrice := klines3m[len(klines3m)-1].Close aborts on an empty list
Aborts == Len(klines["3m"]) = 0

\* klines3m[len(klines3m)-1] on an empty list: index out of range, Get does not return
CurrentPricePanics ==
    /\ gpc = "oi"
    /\ Aborts
    /\ gpc' = "returned"
    /\ ret' = [kind |-> "panic", data |-> NilPtr, err |-> NilErr]
    /\ UNCHANGED <<defaultCoins, gin, klines, oiData, glog>>
    /\ UNCHANGED <<oiVars, calcVars>>

\* the current indicators, then the gate: a symbol isInDefaultCoins rejects gets the
\* placeholder and no request
GateClosed ==
    /\ gpc = "oi"
    /\ ~Aborts
    /\ ~isInDefaultCoins(defaultCoins, gin.symbol)
    /\ oiData' = OIData(0, 0)
    /\ gpc' = "funding"
    /\ glog' = [glog EXCEPT !.gate = defaultCoins, !.oi = "excluded"]
    /\ UNCHANGED <<defaultCoins, gin, klines, ret>>
    /\ UNCHANGED <<oiVars, calcVars>>

\* the exchange selector: exactly the string "hyperliquid" picks the cache
UsesHyperliquid(exchange) == exchange = "hyperliquid"

\* oiData, err = getOpenInterestData(symbol), with the placeholder on error
OIBinance(i) ==
    /\ gpc = "oi"
    /\ ~Aborts
    /\ isInDefaultCoins(defaultCoins, gin.symbol)
    /\ ~UsesHyperliquid(gin.exchange)
    /\ LET res == getOpenInterestData(PlainResponse(i))
       IN /\ oiData' = OrPlaceholder(res)
          /\ glog' = [glog EXCEPT !.reqs = Append(@, "oi:binance"), !.gate = defaultCoins,
                                  !.oi = IF res.err # NilErr THEN "failed" ELSE "ok"]
    /\ gpc' = "funding"
    /\ UNCHANGED <<defaultCoins, gin, klines, ret>>
    /\ UNCHANGED <<oiVars, calcVars>>

\* oiData, err = getHyperliquidOpenInterestData(symbol): the call is entered
OIHyperliquid ==
    /\ gpc = "oi"
    /\ ~Aborts
    /\ isInDefaultCoins(defaultCoins, gin.symbol)
    /\ UsesHyperliquid(gin.exchange)
    /\ Call(GetProc, gin.symbol)
    /\ gpc' = "oiwait"
    /\ glog' = [glog EXCEPT !.reqs = Append(@, "oi:hyperliquid"), !.gate = defaultCoins]
    /\ UNCHANGED <<defaultCoins, gin, klines, oiData, ret>>
    /\ UNCHANGED calcVars

\* the cache lookup has returned, with the placeholder on error
OIHyperliquidDone ==
    /\ gpc = "oiwait"
    /\ pc[GetProc] = "done"
    /\ oiData' = OrPlaceholder(result[GetProc])
    /\ glog' = [glog EXCEPT !.oi = IF result[GetProc].err # NilErr THEN "failed" ELSE "ok"]
    /\ gpc' = "funding"
    /\ UNCHANGED <<defaultCoins, gin, klines, ret>>
    /\ UNCHANGED <<oiVars, calcVars>>

\* fundingRate, _ := getFundingRate(symbol); the series and the summary; return
Funding(i) ==
    /\ gpc = "funding"
    /\ LET fr == getFundingRate(PlainResponse(i))
       IN /\ ret' = [kind |-> "data",
                     data |-> Assemble(gin.symbol, klines, oiData, fr.rate),
                     err |-> NilErr]
          /\ glog' = [glog EXCEPT !.reqs = Append(@, "funding"),
                                  !.funding = IF fr.err # NilErr THEN "failed" ELSE "ok"]
    /\ gpc' = "returned"
    /\ UNCHANGED <<defaultCoins, gin, klines, oiData>>
    /\ UNCHANGED <<oiVars, calcVars>>

\* a step of the cache lookup made on behalf of Get
LookupStep ==
    /\ gpc = "oiwait"
    /\ \/ RCheck(GetProc)
       \/ Lock(GetProc)
       \/ WCheck(GetProc)
       \/ \E i \in ResponseIds : Receive(GetProc, i)
       \/ Parse(GetProc)
       \/ SetTime(GetProc)
    /\ UNCHANGED <<getVars, calcVars>>

NextGet ==
    \/ \E coins \in CoinLists : SetDefaultCoins(coins)
    \/ \E s \in RawSymbols, e \in Exchanges : GetStart(s, e)
    \/ \E i \in KlineResponseIds : FetchKlines(i)
    \/ CurrentPricePanics
    \/ GateClosed
    \/ \E i \in PlainResponseIds : OIBinance(i)
    \/ OIHyperliquid
    \/ OIHyperliquidDone
    \/ \E i \in PlainResponseIds : Funding(i)
    \/ LookupStep

SpecGet == Init /\ [][NextGet]_vars

(* SetDefaultCoins step by step, running beside Get: the package variable is
   first set to an empty map and then filled one coin at a time, with no lock.
   job holds the call's argument and the set it replaces, out the number of
   coins stored so far. *)

\* defaultCoins = make(map[string]bool)
SetDefaultCoinsMake(coins) ==
    /\ cpc \in {"ready", "done"}
    /\ job' = [kind |-> "set", coins |-> coins, before |-> defaultCoins]
    /\ defaultCoins' = {}
    /\ out' = 0
    /\ cpc' = IF Len(coins) = 0 THEN "done" ELSE "filling"
    /\ UNCHANGED <<gpc, gin, klines, oiData, ret, glog>>
    /\ UNCHANGED oiVars

\* defaultCoins[normalizedCoin] = true for the next coin of the range loop
SetDefaultCoinsStore ==
    /\ cpc = "filling"
    /\ defaultCoins' = defaultCoins \cup {Normalize(job.coins[out + 1])}
    /\ out' = out + 1
    /\ cpc' = IF out + 1 = Len(job.coins) THEN "done" ELSE "filling"
    /\ UNCHANGED <<job, gpc, gin, klines, oiData, ret, glog>>
    /\ UNCHANGED oiVars

\* Get on the per-symbol endpoints with candle lists that decode, beside the
\* steps of SetDefaultCoins
NextCoins ==
    \/ \E coins \in CoinLists : SetDefaultCoinsMake(coins)
    \/ SetDefaultCoinsStore
    \/ \E s \in RawSymbols : GetStart(s, "binance")
    \/ FetchKlines(1)
    \/ GateClosed
    \/ \E i \in PlainResponseIds : OIBinance(i)
    \/ \E i \in PlainResponseIds : Funding(i)

SpecCoins == Init /\ [][NextCoins]_vars

NextOI ==
    \/ \E p \in Procs, s \in LookupSymbols : Call(p, s) /\ UNCHANGED <<getVars, calcVars>>
    \/ \E p \in Procs : RCheck(p) /\ UNCHANGED <<getVars, calcVars>>
    \/ \E p \in Procs : Lock(p) /\ UNCHANGED <<getVars, calcVars>>
    \/ \E p \in Procs : WCheck(p) /\ UNCHANGED <<getVars, calcVars>>
    \/ \E p \in Procs, i \in ResponseIds : Receive(p, i) /\ UNCHANGED <<getVars, calcVars>>
    \/ \E p \in Procs : Parse(p) /\ UNCHANGED <<getVars, calcVars>>
    \/ \E p \in Procs : SetTime(p) /\ UNCHANGED <<getVars, calcVars>>
    \/ Tick /\ UNCHANGED <<getVars, calcVars>>

SpecOI == Init /\ [][NextOI]_vars

(* The lookup with every goroutine calling once, under fair scheduling: a
   goroutine that can take its next step eventually takes it, and the upstream
   answers every call. Callers are free not to call. The clock stands still:
   the stale and the fresh branch are both taken, from the initial caches and
   after a refresh. *)

\* a goroutine's first call; no more goroutines enter than upstream calls are counted
CallOnce(p, s) ==
    /\ pc[p] = "idle"
    /\ Cardinality({q \in Procs : pc[q] # "idle"}) < MaxUpstream
    /\ Call(p, s)

\* the next step of a goroutine inside the function
ProcStep(p) ==
    /\ \/ RCheck(p)
       \/ Lock(p)
       \/ WCheck(p)
       \/ \E i \in ResponseIds : Receive(p, i)
       \/ Parse(p)
       \/ SetTime(p)
    /\ UNCHANGED <<getVars, calcVars>>

NextOILive ==
    \/ \E p \in Procs, s \in LookupSymbols : CallOnce(p, s) /\ UNCHANGED <<getVars, calcVars>>
    \/ \E p \in Procs : ProcStep(p)

SpecOILive == Init /\ [][NextOILive]_vars /\ \A p \in Procs : WF_vars(ProcStep(p))

----------------------------------------------------------------------------
(* Properties of the open-interest cache, checked under SpecOI *)

Calling(p) == pc[p] \in {"inflight", "parse"}
Listed(s) == s \in DOMAIN hyperliquidOICache
FirstWindow == now < StartTime + hyperliquidOICacheTTL

\* C1 as stated: while the table is fresh (a successful refresh less than 30 s ago)
\* no lookup, whatever its symbol, has an upstream bulk call under way.
C1_NoCallWhileFresh == \A p \in Procs : Calling(p) => ~CacheValid

\* C1 amended: no lookup has an upstream bulk call under way while the table is
\* fresh and lists the lookup's symbol.
C1_NoCallWhileFreshAndListed ==
    \A p \in Procs : Calling(p) => ~(CacheValid /\ Listed(sym[p]))

\* one refresh, then a lookup for a different symbol served on the fast path
C1_Witness ==
    \E p, q \in Procs :
        /\ p # q /\ pc[p] = "done" /\ pc[q] = "done"
        /\ path[p] = "refresh" /\ path[q] = "fast" /\ sym[p] # sym[q]
        /\ calls = 1 /\ CacheValid

ServedFromTable(p) ==
    IF path[p] = "refresh"
    THEN result[p] = AfterRefresh(hyperliquidOICache, sym[p])
    ELSE path[p] \in {"fast", "double"} /\ result[p] = Hit(hyperliquidOICache, sym[p])

ExactlyOnce ==
    /\ calls <= 1
    /\ \A p \in Procs : pc[p] = "done" => calls = 1 /\ ServedFromTable(p)

C3_AbsentIsZeroValue ==
    [][\A p \in Procs :
          (pc[p] = "settime" /\ pc'[p] = "done") =>
              /\ result'[p].err = NilErr
              /\ IF sym[p] \in DOMAIN hyperliquidOICache'
                 THEN result'[p].data.Latest = hyperliquidOICache'[sym[p]]
                 ELSE result'[p].data = OIData(0, 0)]_vars

\* a refresh has just returned the zero value for a symbol its table does not list
C3_Witness ==
    \E p \in Procs :
        /\ pc[p] = "done" /\ path[p] = "refresh" /\ ~Listed(sym[p])
        /\ hyperliquidOICacheTime = now /\ hyperliquidOICache # EmptyTable
        /\ result[p] = NotFound

\* the failures C4 lists, stated without the order in which the code tests them
ListedFailure(r) ==
    \/ r.transport # "ok" \/ r.read # "ok"
    \/ r.status # 200
    \/ r.json # "ok"
    \/ Len(r.body) < 2
    \/ r.body[1].t # "obj"
    \/ "universe" \notin DOMAIN r.body[1].v
    \/ r.body[1].v["universe"].t # "arr"
    \/ r.body[2].t # "arr"
    \/ Len(r.body[1].v["universe"].v) # Len(r.body[2].v)

\* C4: when the answer in hand is one of the listed failures, the step that handles
\* it returns a non-nil error, leaves table and timestamp as they were and releases
\* the exclusive lock.
C4_FailedRefreshKeepsCache ==
    [][\A p \in Procs :
          (pc[p] = "parse" /\ pc'[p] # "parse" /\ ListedFailure(Response(respIdx[p]))) =>
              /\ pc'[p] = "done"
              /\ result'[p].err # NilErr
              /\ hyperliquidOICache' = hyperliquidOICache
              /\ hyperliquidOICacheTime' = hyperliquidOICacheTime
              /\ mu.writer = p /\ mu'.writer = NoProc]_vars

\* a refresh has failed over a table that an earlier refresh of this run installed
C4_Witness ==
    \E p \in Procs :
        /\ pc[p] = "done" /\ path[p] = "error" /\ result[p].err # NilErr
        /\ hyperliquidOICache # EmptyTable /\ hyperliquidOICacheTime > ZeroTime
        /\ mu.writer = NoProc

\* C5 as stated: a lookup that began after a failed refresh, with no refresh
\* succeeding since, is answered from the kept table when the table lists its symbol.
C5_StaleTableServes ==
    \A p \in Procs :
        (pc[p] = "done" /\ afterFail[p] /\ Listed(sym[p])) =>
            result[p] = Hit(hyperliquidOICache, sym[p])

\* C5 amended: after a failed refresh and until one succeeds, a lookup for a listed
\* symbol is answered from the kept table exactly when the table is still within
\* its freshness window at the lookup's check; past the window the read section
\* gives no answer and the locked section calls upstream again.
C5_KeptTableServesWhileFresh ==
    [][\A p \in Procs :
          (failedSince /\ Listed(sym[p]) /\ pc[p] \in {"rcheck", "wcheck"} /\ pc'[p] # pc[p]) =>
              IF CacheValid
              THEN /\ pc'[p] = "done"
                   /\ result'[p] = Hit(hyperliquidOICache, sym[p])
                   /\ calls' = calls
              ELSE IF pc[p] = "rcheck"
                   THEN pc'[p] = "lock" /\ calls' = calls
                   ELSE pc'[p] = "inflight" /\ calls' = calls + 1]_vars

\* after a failed refresh a lookup that began later was served by the kept, still
\* fresh table
C5_Witness ==
    \E p \in Procs :
        /\ pc[p] = "done" /\ afterFail[p] /\ failedSince /\ path[p] = "fast"
        /\ result[p] = Hit(hyperliquidOICache, sym[p])

\* C6: whenever a lookup is about to read the shared state (under the read lock or
\* in the locked re-check), table and timestamp are together those of the last
\* completed refresh (or the initial pair), and that table is one a successful
\* response builds.
C6_ReadersSeeWholeRefresh ==
    \A p \in Procs :
        pc[p] \in {"rcheck", "wcheck"} =>
            /\ <<hyperliquidOICache, hyperliquidOICacheTime>> = lastInstalled
            /\ \/ lastInstalled \in InitialCaches
               \/ \E i \in ResponseIds :
                      /\ RefreshError(Response(i)) = NilErr
                      /\ hyperliquidOICache = BuildCache(Response(i))

\* a reader holds the read lock on a table installed during the run while another
\* goroutine waits for the exclusive lock
C6_Witness ==
    \E p, q \in Procs :
        /\ pc[p] = "rcheck" /\ pc[q] = "lock"
        /\ calls >= 1 /\ hyperliquidOICacheTime > ZeroTime

----------------------------------------------------------------------------
(* Properties of Get, checked under SpecGet *)

Timeframes == {TfOrder[k] : k \in 1..Len(TfOrder)}
Returned == gpc = "returned"

\* C7: the candle requests go out in the order 3m, 15m, 1h, 4h and every other
\* request comes after all four; once the fetch of a timeframe has failed, Get has
\* returned nil Data with an error naming that timeframe, and its requests are
\* exactly the candle fetches up to the failed one: no later candle fetch, no
\* open-interest request, no funding-rate request
C7_KlineFailureStopsGet ==
    /\ \A k \in 1..Len(glog.reqs) : (k <= Len(TfOrder)) <=> (glog.reqs[k] \in Timeframes)
    /\ \A k \in 1..Len(glog.reqs) : k <= Len(TfOrder) => glog.reqs[k] = TfOrder[k]
    /\ glog.failedTf # "none" =>
          /\ Returned
          /\ ret.kind = "error"
          /\ ret.data = NilPtr
          /\ ret.err = glog.failedTf
          /\ glog.reqs = SubSeq(TfOrder, 1, TfIndex(glog.failedTf))
          /\ oiData = NilPtr

\* the 1h fetch has failed after two good ones, and Get has returned
C7_Witness ==
    /\ Returned
    /\ glog.failedTf = "1h"
    /\ ret.kind = "error"
    /\ Len(klines["3m"]) > 0 /\ Len(klines["15m"]) > 0

FullyPopulated(d) ==
    /\ d # NilPtr
    /\ d.OpenInterest # NilPtr
    /\ d.IntradaySeries # NilPtr
    /\ d.LongerTermContext # NilPtr
    /\ d.SupportResistance # NilPtr

\* C8: whatever the upstream calls answer, Get ends either with a fully populated
\* Data and a nil error or with nil Data and an error, never otherwise
C8_GetEndsCleanly ==
    Returned =>
        \/ ret.kind = "data" /\ FullyPopulated(ret.data) /\ ret.err = NilErr
        \/ ret.kind = "error" /\ ret.data = NilPtr /\ ret.err # NilErr

\* all four candle fetches have succeeded, the 3m one with an empty list, and Get
\* has ended in a run-time panic
C8_Witness ==
    /\ Returned
    /\ ret.kind = "panic"
    /\ glog.reqs = TfOrder
    /\ klines["3m"] = <<>>

\* the part of a snapshot that does not come from the two enrichment requests
Core(d) == [d EXCEPT !.OpenInterest = NilPtr, !.FundingRate = 0]

\* C9: after four good candle fetches, a failed open-interest or funding-rate
\* request does not fail Get: it returns Data with a nil error, OpenInterest {0, 0}
\* for a failed open-interest request, FundingRate 0 for a failed funding-rate
\* request, and every other field as the candles alone determine it
C9_EnrichmentFailureIsSilent ==
    (Returned /\ (glog.oi = "failed" \/ glog.funding = "failed")) =>
        /\ ret.kind = "data"
        /\ ret.err = NilErr
        /\ glog.oi = "failed" => ret.data.OpenInterest = OIData(0, 0)
        /\ glog.funding = "failed" => ret.data.FundingRate = 0
        /\ Core(ret.data) = Core(Assemble(gin.symbol, klines, OIData(1, 1), 1))

\* both enrichment requests have failed, the open-interest one through the
\* Hyperliquid cache, and Get has returned
C9_Witness ==
    /\ Returned
    /\ glog.oi = "failed"
    /\ glog.funding = "failed"
    /\ gin.exchange = "hyperliquid"
    /\ ret.kind = "data"

\* the open-interest requests of the current Get
OIRequests == SelectSeq(glog.reqs, LAMBDA r : r \in {"oi:binance", "oi:hyperliquid"})
\* Get has gone through the gate
GatePassed == gpc = "oiwait" \/ glog.oi # "none"
\* what Get does for a symbol the gate rejects, and for one it admits
NoOICall ==
    /\ OIRequests = <<>>
    /\ calls = glog.bulkBefore
    /\ oiData = OIData(0, 0)
    /\ Returned => ret.data.OpenInterest = OIData(0, 0)
OneOICall ==
    /\ Len(OIRequests) = 1
    /\ OIRequests[1] = (IF gin.exchange = "hyperliquid" THEN "oi:hyperliquid" ELSE "oi:binance")
    /\ gin.exchange # "hyperliquid" => calls = glog.bulkBefore

\* C10 as stated: a symbol that is not in the installed allow-set gets no
\* open-interest call and the placeholder, a symbol in it gets exactly one call
C10_NotInSetMeansNoCall ==
    GatePassed => IF gin.symbol \in glog.gate THEN OneOICall ELSE NoOICall

\* C10: a symbol that a non-empty allow-set does not contain gets no open-interest
\* call (no per-symbol request, no cache lookup, no bulk call) and OpenInterest
\* {0, 0}; a symbol in the allow-set, and any symbol while the allow-set is empty,
\* gets exactly one: the Hyperliquid cache when exchange is "hyperliquid", the
\* per-symbol request otherwise
C10_GateDecidesOpenInterest ==
    GatePassed =>
        IF glog.gate # {} /\ gin.symbol \notin glog.gate THEN NoOICall ELSE OneOICall

\* Get with exchange "hyperliquid" has returned for a symbol that a non-empty
\* allow-set does not contain
C10_Witness ==
    /\ Returned
    /\ ret.kind = "data"
    /\ glog.gate # {}
    /\ gin.symbol \notin glog.gate
    /\ gin.exchange = "hyperliquid"
    /\ glog.oi = "excluded"

\* how many times a request occurs in the request log of the current Get
Count(reqs, r) == Cardinality({k \in 1..Len(reqs) : reqs[k] = r})

\* C11: nothing is retried: in the course of one Get each candle request, the
\* open-interest request and the funding-rate request is issued at most once,
\* whatever it answered, and the cache lookup made for it issues at most one
\* upstream bulk call
C11_NothingRetried ==
    /\ \A r \in Timeframes \cup {"oi:binance", "oi:hyperliquid", "funding"} :
          Count(glog.reqs, r) <= 1
    /\ Len(OIRequests) <= 1
    /\ gpc # "idle" => calls - glog.bulkBefore <= 1

\* Get has returned after a cache lookup whose bulk call failed and a funding-rate
\* request that failed
C11_Witness ==
    /\ Returned
    /\ ret.kind = "data"
    /\ gin.exchange = "hyperliquid"
    /\ calls = glog.bulkBefore + 1
    /\ glog.oi = "failed"
    /\ glog.funding = "failed"

----------------------------------------------------------------------------
(* Support and resistance levels.  Prices are integers; Score is in          *)
(* thousandths; Distance is in thousandths of a percent.  A relative         *)
(* comparison |a - b| / d <= 0.002 is computed as |a - b| * 1000 <= 2 * d.   *)

Abs(x) == IF x < 0 THEN -x ELSE x

\* SupportResistanceLevel as calculateSupportResistanceLevels first builds it
Level(price, strength, score, isSupport) ==
    [Price |-> price, Strength |-> strength, Distance |-> 0, Score |-> score,
     IsSupport |-> isSupport]

\* calcRecencyWeight: 0.5 + 0.5 * index / (total - 1), index 0-based and clamped
calcRecencyWeight(total, index) ==
    IF total <= 1 THEN 1000
    ELSE LET i == IF index < 0 THEN 0 ELSE IF index >= total THEN total - 1 ELSE index
         IN 500 + (500 * i) \div (total - 1)

\* math.Abs(existing.Price-current)/current < 0.001, with the float64 outcomes of a
\* zero divisor (+Inf or NaN: false) and of a negative one (a ratio <= 0: true)
NearDuplicate(existing, current) ==
    IF current > 0 THEN Abs(existing - current) * 1000 < current
    ELSE current < 0

\* variant: a candle that ties with a neighbour is not an extremum
IsLocalMin_NoTies(ks, i) == \A j \in (i - 3)..(i + 3) : j = i \/ ks[j].Low > ks[i].Low

\* the extremum test over the window i-3 .. i+3 (i is 1-based here)
IsLocalMin(ks, i) == \A j \in (i - 3)..(i + 3) : j = i \/ ~(ks[j].Low < ks[i].Low)
IsLocalMax(ks, i) == \A j \in (i - 3)..(i + 3) : j = i \/ ~(ks[j].High > ks[i].High)

RECURSIVE MinimaFrom(_, _, _)
MinimaFrom(ks, i, minima) ==
    IF i > Len(ks) - 3 THEN minima
    ELSE MinimaFrom(ks, i + 1,
            IF IsLocalMin(ks, i)
               /\ ~\E k \in 1..Len(minima) : NearDuplicate(minima[k].Price, ks[i].Low)
            THEN Append(minima, [Price |-> ks[i].Low, Index |-> i - 1])
            ELSE minima)

findLocalMinima(ks) == IF Len(ks) < 3 THEN <<>> ELSE MinimaFrom(ks, 4, <<>>)

RECURSIVE MaximaFrom(_, _, _)
MaximaFrom(ks, i, maxima) ==
    IF i > Len(ks) - 3 THEN maxima
    ELSE MaximaFrom(ks, i + 1,
            IF IsLocalMax(ks, i)
               /\ ~\E k \in 1..Len(maxima) : NearDuplicate(maxima[k].Price, ks[i].High)
            THEN Append(maxima, [Price |-> ks[i].High, Index |-> i - 1])
            ELSE maxima)

findLocalMaxima(ks) == IF Len(ks) < 3 THEN <<>> ELSE MaximaFrom(ks, 4, <<>>)

\* candle.Low <= point.Price*(1+tolerance) && candle.Low >= point.Price*(1-tolerance)
Touches(price, value) == value * 1000 <= price * 1002 /\ value * 1000 >= price * 998

\* the candles other than the point's own that touch it; none when its price <= 0
TouchIndexes(ks, point, isSupport) ==
    {i \in 1..Len(ks) :
        /\ i - 1 # point.Index
        /\ point.Price > 0
        /\ Touches(point.Price, IF isSupport THEN ks[i].Low ELSE ks[i].High)}

RECURSIVE WeightSum(_, _, _)
WeightSum(total, idxs, i) ==
    IF i > total THEN 0
    ELSE (IF i \in idxs THEN calcRecencyWeight(total, i - 1) ELSE 0) + WeightSum(total, idxs, i + 1)

\* levelStats of a point after the touch loop
Stats(ks, point, isSupport) ==
    LET idxs == TouchIndexes(ks, point, isSupport)
    IN [touches |-> 1 + Cardinality(idxs),
        weight |-> calcRecencyWeight(Len(ks), point.Index) + WeightSum(Len(ks), idxs, 1)]

(* The three orders the code sorts levels by *)

\* mergeNearbyLevels: ascending price
PriceLess(a, b) == a.Price < b.Price

\* variant: the ranking looks at Distance alone
RankLess_DistanceOnly(isSupport, a, b) == a.Distance < b.Distance

\* sortAndFilterLevels, first pass: Score descending, Strength descending, Distance
\* ascending, then the price nearer to the current price
RankLess(isSupport, a, b) ==
    IF a.Score = b.Score
    THEN IF a.Strength = b.Strength
         THEN IF a.Distance = b.Distance
              THEN IF isSupport THEN a.Price > b.Price ELSE a.Price < b.Price
              ELSE a.Distance < b.Distance
         ELSE a.Strength > b.Strength
    ELSE a.Score > b.Score

\* variant: the second pass is left out
DisplayLess_Skipped(isSupport, a, b) == FALSE

\* sortAndFilterLevels, second pass: Distance ascending, then the nearer price
DisplayLess(isSupport, a, b) ==
    IF a.Distance = b.Distance
    THEN IF isSupport THEN a.Price > b.Price ELSE a.Price < b.Price
    ELSE a.Distance < b.Distance

Less(order, isSupport, a, b) ==
    CASE order = "price" -> PriceLess(a, b)
      [] order = "rank" -> RankLess(isSupport, a, b)
      [] OTHER -> DisplayLess(isSupport, a, b)

\* a stable sort (sort.SliceStable; sort.Slice on keys that differ): each element is
\* placed before the first one it is less than
RECURSIVE InsertSorted(_, _, _, _)
InsertSorted(order, isSupport, x, s) ==
    IF s = <<>> THEN <<x>>
    ELSE IF Less(order, isSupport, x, Head(s)) THEN <<x>> \o s
    ELSE <<Head(s)>> \o InsertSorted(order, isSupport, x, Tail(s))

RECURSIVE StableSort(_, _, _)
StableSort(order, isSupport, s) ==
    IF s = <<>> THEN <<>>
    ELSE InsertSorted(order, isSupport, s[Len(s)],
                      StableSort(order, isSupport, SubSeq(s, 1, Len(s) - 1)))

\* the number of levels sortAndFilterLevels keeps at most: levels[:5]
KeptLevels == 5

sortAndFilterLevels(levels, isSupport) ==
    LET ranked == StableSort("rank", isSupport, levels)
        top == IF Len(ranked) > KeptLevels THEN SubSeq(ranked, 1, KeptLevels) ELSE ranked
    IN StableSort("display", isSupport, top)

\* math.Abs(levels[i].Price-current.Price)/denom <= tolerance, denom the mean of the
\* two prices, 1 when that mean is 0
MergeWithin(current, other) ==
    LET sum == current.Price + other.Price
    IN IF sum = 0 THEN other.Price = current.Price
       ELSE IF sum > 0 THEN Abs(other.Price - current.Price) * 1000 <= sum
       ELSE TRUE

\* variant: the merged level keeps the price of the lower level
MergedPrice_KeepFirst(current, other, totalScore) == current.Price

\* the score-weighted mean of the two prices
MergedPrice(current, other, totalScore) ==
    (current.Price * current.Score + other.Price * other.Score) \div totalScore

\* variant: the merged level keeps its own Strength
MergeInto_StrengthNotAdded(current, other) ==
    LET sum == current.Score + other.Score
        strengths == current.Strength + other.Strength
        totalScore == IF sum <= 0 THEN (IF strengths = 0 THEN 1 ELSE strengths) ELSE sum
    IN [current EXCEPT !.Price = MergedPrice(current, other, totalScore),
                       !.Score = sum]

MergeInto(current, other) ==
    LET sum == current.Score + other.Score
        strengths == current.Strength + other.Strength
        totalScore == IF sum <= 0 THEN (IF strengths = 0 THEN 1 ELSE strengths) ELSE sum
    IN [current EXCEPT !.Price = MergedPrice(current, other, totalScore),
                       !.Strength = strengths,
                       !.Score = sum]

RECURSIVE MergeFrom(_, _, _, _)
MergeFrom(levels, i, current, merged) ==
    IF i > Len(levels) THEN Append(merged, current)
    ELSE IF MergeWithin(current, levels[i])
         THEN MergeFrom(levels, i + 1, MergeInto(current, levels[i]), merged)
         ELSE MergeFrom(levels, i + 1, [levels[i] EXCEPT !.Distance = 0],
                        Append(merged, current))

mergeNearbyLevels(levels) ==
    IF Len(levels) = 0 THEN levels
    ELSE LET sorted == StableSort("price", TRUE, levels)
         IN MergeFrom(sorted, 2, [sorted[1] EXCEPT !.Distance = 0], <<>>)

\* math.Abs((currentPrice - price) / currentPrice * 100); nothing is written when
\* currentPrice <= 0
DistanceTo(price, currentPrice) == (Abs(currentPrice - price) * 100000) \div currentPrice

updateLevelDistances(levels, currentPrice) ==
    IF currentPrice <= 0 THEN levels
    ELSE [i \in 1..Len(levels) |->
             [levels[i] EXCEPT !.Distance = DistanceTo(levels[i].Price, currentPrice)]]

\* the levels appended for the points on the right side of the current price
RECURSIVE Candidates(_, _, _, _, _)
Candidates(ks, points, i, currentPrice, isSupport) ==
    IF i > Len(points) THEN <<>>
    ELSE LET point == points[i]
             stats == Stats(ks, point, isSupport)
             keep == IF isSupport THEN point.Price < currentPrice
                     ELSE point.Price > currentPrice
         IN (IF keep THEN <<Level(point.Price, stats.touches, stats.weight, isSupport)>>
             ELSE <<>>)
            \o Candidates(ks, points, i + 1, currentPrice, isSupport)

supportResistanceLookback == 120

SideLevels(recent, points, isSupport) ==
    LET currentPrice == recent[Len(recent)].Close
    IN sortAndFilterLevels(
           updateLevelDistances(
               mergeNearbyLevels(Candidates(recent, points, 1, currentPrice, isSupport)),
               currentPrice),
           isSupport)

calculateSupportResistanceLevels(ks, lookback) ==
    IF Len(ks) = 0 THEN [supports |-> <<>>, resistances |-> <<>>]
    ELSE LET recent == LastN(ks, lookback)
         IN [supports |-> SideLevels(recent, findLocalMinima(recent), TRUE),
             resistances |-> SideLevels(recent, findLocalMaxima(recent), FALSE)]

----------------------------------------------------------------------------
(* The level functions applied on their own: the arguments are drawn when the *)
(* behaviour begins, one step applies the function.                           *)

\* two candidate levels of one side as the merge receives them: distinct prices
\* (findLocalMinima drops near-duplicates), positive scores, Distance not yet set
MergePrices == {100000, 100100, 100150, 100200, 100250, 101000}
MergeScores == {500, 800, 1500}
MergeStrengths == {1, 3}
MergeLevels ==
    {Level(p, n, w, TRUE) : p \in MergePrices, n \in MergeStrengths, w \in MergeScores}
MergeJobs ==
    {[kind |-> "merge", levels |-> <<q[1], q[2]>>] :
        q \in {r \in MergeLevels \X MergeLevels : r[1].Price # r[2].Price}}

\* two levels without score, as a direct caller of mergeNearbyLevels may pass them
UnscoredMergeJobs ==
    {[kind |-> "mergeUnscored", levels |-> <<q[1], q[2]>>] :
        q \in {r \in {Level(p, n, 0, TRUE) : p \in {100000, 100100, 100150}, n \in {0, 1, 3}}
                     \X {Level(p, n, 0, TRUE) : p \in {100000, 100100, 100150}, n \in {0, 1, 3}} :
                  r[1].Price # r[2].Price}}

\* lists of up to MaxMergeLen levels in any order, neighbouring prices 0.15% apart
\* so that merging one pair can move the merged price away from the next level
MaxMergeLen == 3
ListLevels ==
    {Level(q[1], q[2][1], q[2][2], TRUE) :
        q \in {100000, 100150, 100300, 100450, 101000} \X {<<1, 500>>, <<3, 1500>>}}
RECURSIVE LevelLists(_)
LevelLists(n) ==
    IF n = 0 THEN {<<>>}
    ELSE {Append(q[1], q[2]) : q \in LevelLists(n - 1) \X ListLevels}
MergeListJobs ==
    {[kind |-> "mergeList", levels |-> l] : l \in UNION {LevelLists(n) : n \in 0..MaxMergeLen}}

ApplyMerge ==
    /\ cpc = "ready"
    /\ job.kind \in {"merge", "mergeUnscored", "mergeList"}
    /\ out' = [levels |-> mergeNearbyLevels(job.levels)]
    /\ cpc' = "done"
    /\ UNCHANGED <<job, oiVars, getVars>>

\* the current price the drawn levels lie around
RefPrice == 100000

\* a pool of support levels below RefPrice, with equal scores and strengths among
\* them; the resistance pool is its mirror image above RefPrice
SupportPool ==
    {Level(99900, 2, 1500, TRUE), Level(99500, 2, 1500, TRUE), Level(99000, 3, 1500, TRUE),
     Level(98000, 1, 2000, TRUE), Level(99950, 1, 600, TRUE), Level(99700, 1, 600, TRUE),
     Level(99800, 1, 900, TRUE), Level(98500, 1, 600, TRUE)}
Mirror(l) == [l EXCEPT !.Price = 2 * RefPrice - l.Price, !.IsSupport = FALSE]
Pool(isSupport) == IF isSupport THEN SupportPool ELSE {Mirror(l) : l \in SupportPool}

\* a set of levels with distinct prices as a sequence, ascending or descending
RECURSIVE SeqByPrice(_, _)
SeqByPrice(S, ascending) ==
    IF S = {} THEN <<>>
    ELSE LET first == CHOOSE x \in S : \A y \in S :
                          IF ascending THEN x.Price <= y.Price ELSE x.Price >= y.Price
         IN <<first>> \o SeqByPrice(S \ {first}, ascending)

\* the longest list handed to sortAndFilterLevels
MaxSortLen == 7

\* more than KeptLevels levels with their distances set, in ascending price order (as
\* they leave the merge) or in descending price order
SortJobsOf(side) ==
    {[kind |-> "sort", isSupport |-> side,
      levels |-> updateLevelDistances(SeqByPrice(S, asc), RefPrice)] :
        asc \in BOOLEAN,
        S \in {T \in SUBSET Pool(side) : Cardinality(T) > KeptLevels
                                         /\ Cardinality(T) <= MaxSortLen}}
SortJobs == SortJobsOf(TRUE) \cup SortJobsOf(FALSE)

ApplySort ==
    /\ cpc = "ready"
    /\ job.kind = "sort"
    /\ out' = [levels |-> sortAndFilterLevels(job.levels, job.isSupport)]
    /\ cpc' = "done"
    /\ UNCHANGED <<job, oiVars, getVars>>

(* Properties of the level functions, checked under SpecSR *)

Done(kind) == cpc = "done" /\ job.kind = kind
\* the two prices are within 0.2% of their mean
WithinTolerance(p, q) == Abs(p - q) * 1000 <= p + q
Between(x, p, q) == (p <= x /\ x <= q) \/ (q <= x /\ x <= p)
RangeOf(s) == {s[i] : i \in 1..Len(s)}

\* C13: two levels within the 0.2% tolerance merge into exactly one level whose
\* Price lies between the two prices and is at least as close to the price of the
\* level with the higher Score as to the other, whose Strength and Score are the
\* sums of the two; two levels farther apart both come back unchanged
C13_MergeOfTwo ==
    Done("merge") =>
        LET a == job.levels[1]
            b == job.levels[2]
            hi == IF a.Score >= b.Score THEN a ELSE b
            lo == IF a.Score >= b.Score THEN b ELSE a
        IN IF WithinTolerance(a.Price, b.Price)
           THEN /\ Len(out.levels) = 1
                /\ Between(out.levels[1].Price, a.Price, b.Price)
                /\ a.Score # b.Score =>
                      Abs(out.levels[1].Price - hi.Price) <= Abs(out.levels[1].Price - lo.Price)
                /\ out.levels[1].Strength = a.Strength + b.Strength
                /\ out.levels[1].Score = a.Score + b.Score
           ELSE Len(out.levels) = 2 /\ RangeOf(out.levels) = {a, b}

\* two levels 0.15% apart, the upper one with the higher score, have been merged
C13_Witness ==
    /\ Done("merge")
    /\ Len(out.levels) = 1
    /\ job.levels[1].Price = 100000 /\ job.levels[2].Price = 100150
    /\ job.levels[2].Score > job.levels[1].Score
    /\ out.levels[1].Price > 100075

\* the ranking order of sortAndFilterLevels: a ranks strictly above b
RanksAbove(isSupport, a, b) ==
    \/ a.Score > b.Score
    \/ a.Score = b.Score /\ a.Strength > b.Strength
    \/ a.Score = b.Score /\ a.Strength = b.Strength /\ a.Distance < b.Distance
    \/ /\ a.Score = b.Score /\ a.Strength = b.Strength /\ a.Distance = b.Distance
       /\ IF isSupport THEN a.Price > b.Price ELSE a.Price < b.Price

\* C18: of more than 5 levels, sortAndFilterLevels keeps 5 of them such that no
\* discarded level ranks strictly above a kept one (Score descending, Strength
\* descending, Distance ascending, nearer price), and returns the kept ones in
\* ascending Distance
C18_TopFiveByRank ==
    Done("sort") =>
        LET kept == RangeOf(out.levels)
            dropped == RangeOf(job.levels) \ kept
        IN /\ Len(out.levels) = 5
           /\ Cardinality(kept) = 5
           /\ kept \subseteq RangeOf(job.levels)
           /\ \A d \in dropped, k \in kept : ~RanksAbove(job.isSupport, d, k)
           /\ \A i \in 1..4 : out.levels[i].Distance <= out.levels[i + 1].Distance

\* seven levels went in, the nearest one was discarded, and the first level
\* returned is not the one that ranks highest
C18_Witness ==
    /\ Done("sort")
    /\ Len(job.levels) = 7
    /\ \E d \in RangeOf(job.levels) \ RangeOf(out.levels) :
          \A k \in RangeOf(out.levels) : d.Distance < k.Distance
    /\ \E k \in RangeOf(out.levels) : RanksAbove(job.isSupport, k, out.levels[1])

(* A candle window with its lowest low p at one candle and other lows either far
   above p or inside the 0.2% band above it *)

Candle(low, high, close) == [Low |-> low, High |-> high, Close |-> close]

\* the window: 20 candles closing at 101000, the low p = RefPrice at index 4, and
\* three more lows drawn: next to it (index 5) and on their own (indices 10 and 15)
FarLow == 102000
BandLows == {FarLow, RefPrice, RefPrice + 50, RefPrice + 150, RefPrice + 200}
WindowLen == 20
TouchWindow(l5, l10, l15) ==
    [i \in 1..WindowLen |->
        Candle(CASE i = 5 -> RefPrice
                 [] i = 6 -> l5
                 [] i = 11 -> l10
                 [] i = 16 -> l15
                 [] OTHER -> FarLow,
               103000, 101000)]

LevelsJobs ==
    {[kind |-> "levels", ks |-> TouchWindow(l5, l10, l15)] :
        l5 \in BandLows, l10 \in BandLows, l15 \in BandLows}

ApplyLevels ==
    /\ cpc = "ready"
    /\ job.kind = "levels"
    /\ out' = calculateSupportResistanceLevels(job.ks, supportResistanceLookback)
    /\ cpc' = "done"
    /\ UNCHANGED <<job, oiVars, getVars>>

\* the candles other than the one at 0-based index i whose low is within 0.2% of p
TouchCount(ks, i, p) ==
    Cardinality({j \in 1..Len(ks) : j - 1 # i /\ Touches(p, ks[j].Low)})

\* C15: a window whose only local minimum, at index 4 and priced p below the latest
\* close, is touched by k other candles (low within 0.2% of p), gives exactly one
\* support level, at p, with Strength k + 1 and Distance (close - p) / close * 100,
\* wherever in the band the touching lows are
C15_OneSupportWithTouches ==
    Done("levels") =>
        /\ Len(out.supports) = 1
        /\ out.supports[1].Price = RefPrice
        /\ out.supports[1].Strength = TouchCount(job.ks, 4, RefPrice) + 1
        /\ out.supports[1].Distance = DistanceTo(RefPrice, job.ks[WindowLen].Close)

\* the lows at indices 10 and 15 are 0.15% above p, the one at index 5 is far, and
\* the single support returned has Strength 6 and a Price above p
C15_Witness ==
    /\ Done("levels")
    /\ job.ks[6].Low = FarLow
    /\ job.ks[11].Low = RefPrice + 150
    /\ job.ks[16].Low = RefPrice + 150
    /\ Len(out.supports) = 1
    /\ out.supports[1].Strength = 6
    /\ out.supports[1].Price > RefPrice

(* Confluence across timeframes *)

\* math.Round of a product in thousandths (non-negative): half rounds up
RoundThousandths(n) == (n + 500) \div 1000

\* math.Abs(level.Price-other.Price)/denom <= tolerance; a zero denom is skipped
ConfluenceWithin(level, other) ==
    LET sum == level.Price + other.Price
    IN IF sum = 0 THEN FALSE
       ELSE IF sum > 0 THEN Abs(level.Price - other.Price) * 1000 <= sum
       ELSE TRUE

\* for every set, in order, that holds a level within tolerance of the given one:
\* the set's weight and its first such level
RECURSIVE Matches(_, _, _)
Matches(level, sets, k) ==
    IF k > Len(sets) THEN <<>>
    ELSE LET hits == {i \in 1..Len(sets[k].levels) : ConfluenceWithin(level, sets[k].levels[i])}
         IN (IF hits = {} THEN <<>>
             ELSE <<[weight |-> sets[k].weight,
                     other |-> sets[k].levels[CHOOSE i \in hits : \A j \in hits : i <= j]]>>)
            \o Matches(level, sets, k + 1)

\* variant: every timeframe that matches contributes
Contributing_All(matches) == matches

\* the two break statements: the search ends at the first set with a hit
Contributing(matches) == IF matches = <<>> THEN <<>> ELSE <<matches[1]>>

RECURSIVE AddContributions(_, _, _)
AddContributions(combined, contributions, i) ==
    IF i > Len(contributions) THEN combined
    ELSE AddContributions(
            [combined EXCEPT
                !.Score = @ + (contributions[i].other.Score * contributions[i].weight) \div 1000,
                !.Strength = @ + RoundThousandths(contributions[i].other.Strength
                                                  * contributions[i].weight)],
            contributions, i + 1)

\* combined for one base level: the level at baseWeight 0.5 plus what matched
Combined(level, sets) ==
    AddContributions([level EXCEPT !.Score = (@ * 500) \div 1000,
                                   !.Strength = RoundThousandths(@ * 500)],
                     Contributing(Matches(level, sets, 1)), 1)

\* result before updateLevelDistances and sortAndFilterLevels
RECURSIVE Promoted(_, _, _)
Promoted(base, sets, i) ==
    IF i > Len(base) THEN <<>>
    ELSE (IF Matches(base[i], sets, 1) # <<>> THEN <<Combined(base[i], sets)>> ELSE <<>>)
         \o Promoted(base, sets, i + 1)

findConfluenceLevels(base, sets, currentPrice, isSupport) ==
    IF Len(base) = 0 \/ Len(sets) = 0 THEN <<>>
    ELSE LET promoted == Promoted(base, sets, 1)
         IN IF Len(promoted) = 0 THEN promoted
            ELSE sortAndFilterLevels(updateLevelDistances(promoted, currentPrice), isSupport)

\* tfInputs / weighting, and baseOrder
TfNames == <<"3m", "15m", "1h", "4h", "12h", "1d">>
TfWeight == [tf \in {"3m", "15m", "1h", "4h", "12h", "1d"} |->
                CASE tf = "3m" -> 800 [] tf = "15m" -> 1000 [] tf = "1h" -> 1200
                  [] tf = "4h" -> 1400 [] tf = "12h" -> 1600 [] OTHER -> 1800]
BaseOrder == <<"3m", "15m", "1h", "4h">>

\* summary.Timeframes: an entry for every timeframe with candles and a level
TimeframeLevels(tfKlines) ==
    LET levels == [tf \in DOMAIN tfKlines |->
                      calculateSupportResistanceLevels(tfKlines[tf], supportResistanceLookback)]
        present == {tf \in DOMAIN tfKlines :
                       /\ Len(tfKlines[tf]) # 0
                       /\ ~(Len(levels[tf].supports) = 0 /\ Len(levels[tf].resistances) = 0)}
    IN [tf \in present |->
           LET tfPrice == tfKlines[tf][Len(tfKlines[tf])].Close
           IN [Supports |-> updateLevelDistances(levels[tf].supports, tfPrice),
               Resistances |-> updateLevelDistances(levels[tf].resistances, tfPrice)]]

\* variant: the longest timeframe with an entry is the base
BaseName_LongestFirst(timeframes) ==
    LET found == {k \in 1..Len(BaseOrder) : BaseOrder[k] \in DOMAIN timeframes}
    IN IF found = {} THEN "" ELSE BaseOrder[CHOOSE k \in found : \A j \in found : k >= j]

\* the first timeframe of baseOrder with an entry, "" when there is none
BaseName(timeframes) ==
    LET found == {k \in 1..Len(BaseOrder) : BaseOrder[k] \in DOMAIN timeframes}
    IN IF found = {} THEN "" ELSE BaseOrder[CHOOSE k \in found : \A j \in found : k <= j]

\* supportSets / resistanceSets: the other timeframes with an entry, in weight order
RECURSIVE LevelSets(_, _, _, _)
LevelSets(timeframes, baseName, isSupport, k) ==
    IF k > Len(TfNames) THEN <<>>
    ELSE (IF TfNames[k] # baseName /\ TfNames[k] \in DOMAIN timeframes
          THEN <<[levels |-> IF isSupport THEN timeframes[TfNames[k]].Supports
                             ELSE timeframes[TfNames[k]].Resistances,
                  weight |-> TfWeight[TfNames[k]]]>>
          ELSE <<>>)
         \o LevelSets(timeframes, baseName, isSupport, k + 1)

calculateSupportResistanceSummary(tfKlines, currentPrice) ==
    LET timeframes == TimeframeLevels(tfKlines)
        baseName == BaseName(timeframes)
    IN IF baseName = "" \/ Len(LevelSets(timeframes, baseName, TRUE, 1)) = 0
       THEN [Timeframes |-> timeframes, Confluence |-> NilPtr]
       ELSE [Timeframes |-> timeframes,
             Confluence |->
                [Supports |-> findConfluenceLevels(timeframes[baseName].Supports,
                                 LevelSets(timeframes, baseName, TRUE, 1), currentPrice, TRUE),
                 Resistances |-> findConfluenceLevels(timeframes[baseName].Resistances,
                                 LevelSets(timeframes, baseName, FALSE, 1), currentPrice, FALSE)]]

(* Candle lists for the six timeframes of the summary *)

\* candles that close at `close`; the k-th support is the low and the k-th resistance
\* the high of candle 4k (0-based), every other low is 100900 and high is 101100,
\* so each listed price is the only extremum of its 7-candle window
Comb(supports, resistances, close) ==
    [i \in 1..(4 * Len(supports) + 4) |->
        IF i >= 5 /\ (i - 1) % 4 = 0
        THEN Candle(supports[(i - 1) \div 4], resistances[(i - 1) \div 4], close)
        ELSE Candle(100900, 101100, close)]

\* the candle lists the timeframes are drawn from, by index
CandleList(i) ==
    CASE i = 0 -> <<>>
      [] i = 1 -> Comb(<<100000>>, <<102000>>, 101000)
      [] i = 2 -> Comb(<<100150>>, <<102100>>, 101000)
      [] i = 3 -> Comb(<<100000, 99000>>, <<102000, 103000>>, 101000)
      [] i = 4 -> Comb(<<100100, 98450>>, <<102150, 103550>>, 101000)
      [] i = 5 -> [k \in 1..3 |-> Candle(99800, 100000, 99900)]
      [] i = 7 -> Comb(<<100000, 100300>>, <<102250, 101900>>, 101000)
      [] OTHER -> Comb(<<100000, 99700, 99400, 99100, 98800, 98500>>,
                       <<102000, 102300, 102600, 102900, 103200, 103500>>, 101000)

\* Get passes the latest 3m close as currentPrice, so the 3m list is never empty
SummaryJobs ==
    {[kind |-> "summary",
      tfKlines |-> [tf \in {"3m", "15m", "1h", "4h", "12h", "1d"} |->
                       CandleList(CASE tf = "3m" -> a [] tf = "15m" -> b [] tf = "1h" -> c
                                    [] tf = "4h" -> d [] tf = "12h" -> e [] OTHER -> f)],
      currentPrice |-> CandleList(a)[Len(CandleList(a))].Close] :
        a \in {1, 3, 5, 6}, b \in {0, 1, 2, 4}, c \in {0, 2, 3}, d \in {0, 2, 4},
        e \in {0, 1, 7}, f \in {0, 2}}

\* the confluence lists before the distances are set and the top levels are cut
PromotedOf(tfKlines, isSupport) ==
    LET timeframes == TimeframeLevels(tfKlines)
        baseName == BaseName(timeframes)
    IN IF baseName = "" THEN <<>>
       ELSE Promoted(IF isSupport THEN timeframes[baseName].Supports
                     ELSE timeframes[baseName].Resistances,
                     LevelSets(timeframes, baseName, isSupport, 1), 1)

ApplySummary ==
    /\ cpc = "ready"
    /\ job.kind = "summary"
    /\ out' = [summary |-> calculateSupportResistanceSummary(job.tfKlines, job.currentPrice),
               promoted |-> [Supports |-> PromotedOf(job.tfKlines, TRUE),
                             Resistances |-> PromotedOf(job.tfKlines, FALSE)]]
    /\ cpc' = "done"
    /\ UNCHANGED <<job, oiVars, getVars>>

(* Properties of the summary, checked under SpecSR *)

LastClose(ks) == ks[Len(ks)].Close
\* every support of the list is strictly below P and every resistance strictly above
OnTheirSide(supports, resistances, P) ==
    /\ \A i \in 1..Len(supports) : supports[i].Price < P
    /\ \A i \in 1..Len(resistances) : resistances[i].Price > P

\* C12: in the summary every support is strictly below and every resistance strictly
\* above the current price: the latest close of its timeframe for a timeframe's
\* lists, the currentPrice argument for the Confluence lists, whichever timeframe
\* is the base
C12_LevelsOnTheirSide ==
    Done("summary") =>
        /\ \A tf \in DOMAIN out.summary.Timeframes :
              OnTheirSide(out.summary.Timeframes[tf].Supports,
                          out.summary.Timeframes[tf].Resistances,
                          LastClose(job.tfKlines[tf]))
        /\ out.summary.Confluence # NilPtr =>
              OnTheirSide(out.summary.Confluence.Supports,
                          out.summary.Confluence.Resistances, job.currentPrice)

\* the 3m list has no level, the base is 15m, and a confluence support lies above
\* currentPrice
C12_Witness ==
    /\ Done("summary")
    /\ "3m" \notin DOMAIN out.summary.Timeframes
    /\ "15m" \in DOMAIN out.summary.Timeframes
    /\ out.summary.Confluence # NilPtr
    /\ \E i \in 1..Len(out.summary.Confluence.Supports) :
          out.summary.Confluence.Supports[i].Price > job.currentPrice

AtMostFiveAscending(levels) ==
    /\ Len(levels) <= 5
    /\ \A i \in 1..Len(levels) : levels[i].Distance >= 0
    /\ \A i \in 1..(Len(levels) - 1) : levels[i].Distance <= levels[i + 1].Distance

\* C14: every Supports and Resistances list of the summary, per timeframe and in
\* the Confluence, holds at most 5 levels, with Distance non-negative and
\* non-decreasing from first to last
C14_AtMostFiveAscending ==
    Done("summary") =>
        /\ \A tf \in DOMAIN out.summary.Timeframes :
              /\ AtMostFiveAscending(out.summary.Timeframes[tf].Supports)
              /\ AtMostFiveAscending(out.summary.Timeframes[tf].Resistances)
        /\ out.summary.Confluence # NilPtr =>
              /\ AtMostFiveAscending(out.summary.Confluence.Supports)
              /\ AtMostFiveAscending(out.summary.Confluence.Resistances)

\* the 3m list had six candidate supports and five are listed, at distinct
\* distances, and the Confluence lists two supports
C14_Witness ==
    /\ Done("summary")
    /\ Len(findLocalMinima(job.tfKlines["3m"])) = 6
    /\ Len(out.summary.Timeframes["3m"].Supports) = 5
    /\ out.summary.Timeframes["3m"].Supports[1].Distance
          < out.summary.Timeframes["3m"].Supports[5].Distance
    /\ out.summary.Confluence # NilPtr
    /\ Len(out.summary.Confluence.Supports) >= 2

\* the list of one kind that the summary holds for a timeframe
ListOf(tf, isSupport) ==
    IF isSupport THEN out.summary.Timeframes[tf].Supports
    ELSE out.summary.Timeframes[tf].Resistances
PromotedList(isSupport) ==
    IF isSupport THEN out.promoted.Supports ELSE out.promoted.Resistances
\* some timeframe of 3m, 15m, 1h, 4h has a level
HasBase == \E k \in 1..4 : BaseOrder[k] \in DOMAIN out.summary.Timeframes
\* the first of 3m, 15m, 1h, 4h that has a level
FirstWithLevels ==
    BaseOrder[CHOOSE k \in 1..4 :
                 /\ BaseOrder[k] \in DOMAIN out.summary.Timeframes
                 /\ \A j \in 1..(k - 1) : BaseOrder[j] \notin DOMAIN out.summary.Timeframes]
\* positions in the weight order of the other timeframes that have levels
OtherTfs ==
    {k \in 1..6 : TfNames[k] # FirstWithLevels /\ TfNames[k] \in DOMAIN out.summary.Timeframes}
\* positions of the levels of the list within 0.2% of the level
NearIn(level, list) == {i \in 1..Len(list) : WithinTolerance(level.Price, list[i].Price)}
\* the other timeframes holding a level of the kind within 0.2% of the level
NearTfs(level, isSupport) ==
    {k \in OtherTfs : NearIn(level, ListOf(TfNames[k], isSupport)) # {}}
Lowest(S) == CHOOSE k \in S : \A j \in S : k <= j

\* C19: a promoted level takes its contribution from one level only: the first
\* level within 0.2% in the first other timeframe, in weight order, that holds
\* one; its Score is 0.5 * base.Score + weight * other.Score and its Strength
\* round(0.5 * base.Strength) + round(weight * other.Strength)
C19_OneContribution ==
    (Done("summary") /\ HasBase) =>
        \A side \in BOOLEAN :
            \A i \in 1..Len(PromotedList(side)) :
                \E b \in 1..Len(ListOf(FirstWithLevels, side)) :
                    LET level == ListOf(FirstWithLevels, side)[b]
                        combined == PromotedList(side)[i]
                        near == NearTfs(level, side)
                    IN /\ combined.Price = level.Price
                       /\ near # {}
                       /\ LET tf == TfNames[Lowest(near)]
                              other == ListOf(tf, side)[Lowest(NearIn(level, ListOf(tf, side)))]
                          IN /\ Abs(combined.Score * 1000
                                    - (500 * level.Score + TfWeight[tf] * other.Score)) < 2000
                             /\ combined.Strength =
                                   RoundThousandths(500 * level.Strength)
                                   + RoundThousandths(TfWeight[tf] * other.Strength)

\* a promoted support that two other timeframes match, the first of them with
\* two levels within tolerance
C19_Witness ==
    /\ Done("summary")
    /\ HasBase
    /\ \E b \in 1..Len(ListOf(FirstWithLevels, TRUE)) :
          LET level == ListOf(FirstWithLevels, TRUE)[b]
              near == NearTfs(level, TRUE)
          IN /\ Cardinality(near) >= 2
             /\ Cardinality(NearIn(level, ListOf(TfNames[Lowest(near)], TRUE))) >= 2
             /\ \E i \in 1..Len(out.promoted.Supports) :
                   out.promoted.Supports[i].Price = level.Price

\* C20: the base is the first of 3m, 15m, 1h, 4h with a level; a base level is
\* promoted exactly when another timeframe with levels holds a level of its kind
\* within 0.2%; promoted and listed confluence levels carry a base Price; and
\* there is no Confluence when no timeframe other than the base has levels
C20_PromotedIffMatched ==
    (Done("summary") /\ HasBase) =>
        /\ OtherTfs = {} => out.summary.Confluence = NilPtr
        /\ \A side \in BOOLEAN :
              LET base == ListOf(FirstWithLevels, side)
                  promoted == PromotedList(side)
              IN /\ \A b \in 1..Len(base) :
                        (\E i \in 1..Len(promoted) : promoted[i].Price = base[b].Price)
                            <=> NearTfs(base[b], side) # {}
                 /\ \A i \in 1..Len(promoted) :
                        /\ \E b \in 1..Len(base) : promoted[i].Price = base[b].Price
                        /\ \A j \in 1..Len(promoted) :
                              promoted[j].Price = promoted[i].Price => j = i
                 /\ out.summary.Confluence # NilPtr =>
                        LET listed == IF side THEN out.summary.Confluence.Supports
                                      ELSE out.summary.Confluence.Resistances
                        IN \A i \in 1..Len(listed) :
                              \E j \in 1..Len(promoted) : listed[i].Price = promoted[j].Price

\* the 3m list has no level, and of the base's supports one is promoted and
\* another is not
C20_Witness ==
    /\ Done("summary")
    /\ HasBase
    /\ "3m" \notin DOMAIN out.summary.Timeframes
    /\ OtherTfs # {}
    /\ \E b, c \in 1..Len(ListOf(FirstWithLevels, TRUE)) :
          /\ NearTfs(ListOf(FirstWithLevels, TRUE)[b], TRUE) # {}
          /\ NearTfs(ListOf(FirstWithLevels, TRUE)[c], TRUE) = {}
          /\ Len(out.promoted.Supports) >= 1

(* Candle windows for the extremum search: the high mirrors the low about 101000 *)

MaxWindow == 8

RECURSIVE LowSeqs(_)
LowSeqs(n) ==
    IF n = 0 THEN {<<>>}
    ELSE {Append(q[1], q[2]) : q \in LowSeqs(n - 1) \X {100000, 100050, 100200}}

\* sixteen candles with lows of 100900 except at the 0-based positions 0, 4, 8, 12
SpacedLows ==
    {[i \in 1..16 |-> CASE i = 1 -> q[1] [] i = 5 -> q[2] [] i = 9 -> q[3] [] i = 13 -> q[4]
                        [] OTHER -> 100900] :
        q \in {99800, 100900} \X {100000, 100050, 100200}
              \X {100000, 100050, 100200} \X {100000, 100050, 100200}}

ExtremaJobs ==
    {[kind |-> "extrema", ks |-> [i \in 1..Len(lows) |-> Candle(lows[i], 202000 - lows[i], 101000)]] :
        lows \in UNION {LowSeqs(n) : n \in 0..MaxWindow} \cup SpacedLows}

ApplyExtrema ==
    /\ cpc = "ready"
    /\ job.kind = "extrema"
    /\ out' = [minima |-> findLocalMinima(job.ks), maxima |-> findLocalMaxima(job.ks)]
    /\ cpc' = "done"
    /\ UNCHANGED <<job, oiVars, getVars>>

InitSR ==
    /\ \E c \in InitialCaches : hyperliquidOICache = c[1] /\ hyperliquidOICacheTime = c[2]
    /\ mu = [readers |-> {}, writer |-> NoProc]
    /\ now = StartTime
    /\ pc = [p \in Procs |-> "idle"]
    /\ sym = [p \in Procs |-> Normalize(BTC)]
    /\ respIdx = [p \in Procs |-> 0]
    /\ result = [p \in Procs |-> NoResult]
    /\ calls = 0
    /\ everFailed = FALSE
    /\ failedSince = FALSE
    /\ lastInstalled = <<hyperliquidOICache, hyperliquidOICacheTime>>
    /\ missed = FALSE
    /\ afterFail = [p \in Procs |-> FALSE]
    /\ path = [p \in Procs |-> "none"]
    /\ defaultCoins = {}
    /\ gpc = "idle"
    /\ gin = [symbol |-> Normalize(BTC), exchange |-> "binance"]
    /\ klines = NoKlines
    /\ oiData = NilPtr
    /\ ret = NoRet
    /\ glog = NoLog
    /\ \/ job \in MergeJobs
       \/ job \in SortJobs
       \/ job \in LevelsJobs
       \/ job \in UnscoredMergeJobs
       \/ job \in MergeListJobs
       \/ job \in SummaryJobs
       \/ job \in ExtremaJobs
    /\ cpc = "ready"
    /\ out = NoJob

NextSR ==
    \/ ApplyMerge
    \/ ApplySort
    \/ ApplyLevels
    \/ ApplySummary
    \/ ApplyExtrema

SpecSR == InitSR /\ [][NextSR]_vars

(* The indicators applied to candle sequences: closes in thousandths, every
   candle 500 above and below its close *)

MaxWalk == 7
MaxPattern == 36

\* every close sequence of the length that starts at 100000 and moves by a step
\* of -1000, 0 or 1000 from candle to candle
RECURSIVE WalksOf(_)
WalksOf(n) ==
    IF n = 0 THEN {<<>>}
    ELSE IF n = 1 THEN {<<100000>>}
    ELSE {Append(q[1], q[1][Len(q[1])] + q[2]) : q \in WalksOf(n - 1) \X {-1000, 0, 1000}}

\* longer sequences of one shape
Pattern(shape, n) ==
    [i \in 1..n |->
        100000 + (CASE shape = "flat" -> 0
                    [] shape = "rising" -> 1000 * i
                    [] shape = "falling" -> 0 - 1000 * i
                    [] shape = "zigzag" -> 1000 * (i % 2)
                    [] OTHER -> IF 2 * i <= n THEN 1000 * i ELSE 1000 * (n - i))]

CloseSeqs ==
    UNION {WalksOf(n) : n \in 0..MaxWalk}
    \cup {Pattern(shape, n) : shape \in {"flat", "rising", "falling", "zigzag", "peak"},
                              n \in 0..MaxPattern}

Candles(closes) ==
    [i \in 1..Len(closes) |-> Candle(closes[i] - 500, closes[i] + 500, closes[i])]

\* the periods the callers pass, and shorter ones
Periods == {3, 5, 7, 14, 20}

IndicatorJobs ==
    {[kind |-> k, ks |-> Candles(c), period |-> p] :
        k \in {"ema", "rsi", "atr"}, c \in CloseSeqs, p \in Periods}
    \cup {[kind |-> "macd", ks |-> Candles(c), period |-> 26] : c \in CloseSeqs}

ApplyEMA ==
    /\ cpc = "ready"
    /\ job.kind = "ema"
    /\ out' = calculateEMA(job.ks, job.period)
    /\ cpc' = "done"
    /\ UNCHANGED <<job, oiVars, getVars>>

ApplyMACD ==
    /\ cpc = "ready"
    /\ job.kind = "macd"
    /\ out' = calculateMACD(job.ks)
    /\ cpc' = "done"
    /\ UNCHANGED <<job, oiVars, getVars>>

ApplyRSI ==
    /\ cpc = "ready"
    /\ job.kind = "rsi"
    /\ out' = calculateRSI(job.ks, job.period)
    /\ cpc' = "done"
    /\ UNCHANGED <<job, oiVars, getVars>>

ApplyATR ==
    /\ cpc = "ready"
    /\ job.kind = "atr"
    /\ out' = calculateATR(job.ks, job.period)
    /\ cpc' = "done"
    /\ UNCHANGED <<job, oiVars, getVars>>

\* klines answers: the listed ones, and one good row followed by a row in which
\* one of the seven fields is a number, a numeric string, a string that is no
\* number, or null
FieldValues == {JNum(3), JStr(NumStr(110)), JStr(BadStr), JNull}
KlinesJobs ==
    {[kind |-> "klines", resp |-> KlineResponse(tf, i)] :
        tf \in {"3m", "4h"}, i \in KlineResponseIds}
    \cup {[kind |-> "klines",
           resp |-> Good(<<Row1, [Row2 EXCEPT ![q[1]] = q[2]]>>)] :
              q \in (1..7) \X FieldValues}

ApplyKlines ==
    /\ cpc = "ready"
    /\ job.kind = "klines"
    /\ out' = getKlines(job.resp)
    /\ cpc' = "done"
    /\ UNCHANGED <<job, oiVars, getVars>>

IntradayJobs == {[kind |-> "intraday", ks |-> Candles(c)] : c \in CloseSeqs}

ApplyIntraday ==
    /\ cpc = "ready"
    /\ job.kind = "intraday"
    /\ out' = calculateIntradaySeries(job.ks)
    /\ cpc' = "done"
    /\ UNCHANGED <<job, oiVars, getVars>>

InitInd ==
    /\ \E c \in InitialCaches : hyperliquidOICache = c[1] /\ hyperliquidOICacheTime = c[2]
    /\ mu = [readers |-> {}, writer |-> NoProc]
    /\ now = StartTime
    /\ pc = [p \in Procs |-> "idle"]
    /\ sym = [p \in Procs |-> Normalize(BTC)]
    /\ respIdx = [p \in Procs |-> 0]
    /\ result = [p \in Procs |-> NoResult]
    /\ calls = 0
    /\ everFailed = FALSE
    /\ failedSince = FALSE
    /\ lastInstalled = <<hyperliquidOICache, hyperliquidOICacheTime>>
    /\ missed = FALSE
    /\ afterFail = [p \in Procs |-> FALSE]
    /\ path = [p \in Procs |-> "none"]
    /\ defaultCoins = {}
    /\ gpc = "idle"
    /\ gin = [symbol |-> Normalize(BTC), exchange |-> "binance"]
    /\ klines = NoKlines
    /\ oiData = NilPtr
    /\ ret = NoRet
    /\ glog = NoLog
    /\ \/ job \in IndicatorJobs
       \/ job \in IntradayJobs
       \/ job \in KlinesJobs
    /\ cpc = "ready"
    /\ out = NoJob

NextInd ==
    \/ ApplyEMA
    \/ ApplyMACD
    \/ ApplyRSI
    \/ ApplyATR
    \/ ApplyIntraday
    \/ ApplyKlines

SpecInd == InitInd /\ [][NextInd]_vars

\* the sequence is too short for the indicator of the job
TooShort ==
    \/ job.kind = "ema" /\ Len(job.ks) < job.period
    \/ job.kind = "macd" /\ Len(job.ks) < 26
    \/ job.kind \in {"rsi", "atr"} /\ Len(job.ks) <= job.period

\* C16: calculateEMA returns 0 on fewer candles than the period, calculateMACD
\* on fewer than 26, calculateRSI and calculateATR on no more candles than the
\* period; each of them returns on such input
C16_ShortInputGivesZero ==
    /\ (cpc = "ready" /\ TooShort) => ENABLED NextInd
    /\ (cpc = "done" /\ TooShort) => out = 0

\* calculateRSI was applied to exactly period candles, which move
C16_Witness ==
    /\ Done("rsi")
    /\ Len(job.ks) = job.period
    /\ \E i \in 2..Len(job.ks) : job.ks[i].Close # job.ks[i - 1].Close
    /\ out = 0

NoDecrease(ks) == \A i \in 2..Len(ks) : ks[i].Close >= ks[i - 1].Close

\* C17: on more candles than the period calculateRSI returns a value from 0 to
\* 100, and exactly 100 when no close is below the close before it, a flat
\* series included
C17_RSIRange ==
    (Done("rsi") /\ Len(job.ks) > job.period) =>
        /\ 0 <= out /\ out <= 100000
        /\ NoDecrease(job.ks) => out = 100000

\* calculateRSI returned 100 on a strictly rising series longer than the period
C17_Witness ==
    /\ Done("rsi")
    /\ Len(job.ks) > job.period + 1
    /\ \A i \in 2..Len(job.ks) : job.ks[i].Close > job.ks[i - 1].Close
    /\ out = 100000

(* Properties of the extremum search, checked under SpecSR *)

\* the value the search compares: the low for minima, the high for maxima
ValueAt(i, isMin) == IF isMin THEN job.ks[i].Low ELSE job.ks[i].High
FoundExtrema(isMin) == IF isMin THEN out.minima ELSE out.maxima
\* no other candle of the window within 3 positions of position i (1-based) has
\* a strictly lower low, resp. a strictly higher high
NoneBeyond(i, isMin) ==
    \A j \in 1..Len(job.ks) :
        (j # i /\ j >= i - 3 /\ j <= i + 3) =>
            IF isMin THEN ~(job.ks[j].Low < job.ks[i].Low)
            ELSE ~(job.ks[j].High > job.ks[i].High)
\* the candle at position i is among the accepted extrema
Accepted(i, isMin) ==
    \E k \in 1..Len(FoundExtrema(isMin)) :
        /\ FoundExtrema(isMin)[k].Index = i - 1
        /\ FoundExtrema(isMin)[k].Price = ValueAt(i, isMin)
\* an extremum accepted from an earlier candle is within 0.1% of the value at i
EarlierNear(i, isMin) ==
    \E k \in 1..Len(FoundExtrema(isMin)) :
        /\ FoundExtrema(isMin)[k].Index < i - 1
        /\ Abs(FoundExtrema(isMin)[k].Price - ValueAt(i, isMin)) * 1000 < ValueAt(i, isMin)
\* every accepted extremum is a candle of the window, listed in candle order, and
\* no two are within 0.1% of each other (relative to the later one)
WellSeparated(isMin) ==
    LET found == FoundExtrema(isMin)
    IN \A k \in 1..Len(found) :
          /\ found[k].Index + 1 \in 1..Len(job.ks)
          /\ found[k].Price = ValueAt(found[k].Index + 1, isMin)
          /\ \A m \in 1..(k - 1) :
                /\ found[m].Index < found[k].Index
                /\ ~(Abs(found[m].Price - found[k].Price) * 1000 < found[k].Price)

\* C21 as stated: every candle of the window, the first and last three
\* included, is accepted exactly when no other candle within 3 positions goes
\* beyond it and no earlier accepted extremum is within 0.1%
C21_EveryCandleJudged ==
    Done("extrema") =>
        \A isMin \in BOOLEAN :
            /\ WellSeparated(isMin)
            /\ \A i \in 1..Len(job.ks) :
                  Accepted(i, isMin) <=> (NoneBeyond(i, isMin) /\ ~EarlierNear(i, isMin))

\* C21: a candle with three candles on each side is accepted exactly when no
\* other candle within 3 positions goes beyond it and no earlier accepted
\* extremum is within 0.1%; the first and last three candles are never
\* accepted; no two accepted extrema are within 0.1% of each other
C21_InteriorCandlesJudged ==
    Done("extrema") =>
        \A isMin \in BOOLEAN :
            /\ WellSeparated(isMin)
            /\ \A i \in 1..Len(job.ks) :
                  Accepted(i, isMin) <=>
                      /\ i >= 4 /\ i <= Len(job.ks) - 3
                      /\ NoneBeyond(i, isMin)
                      /\ ~EarlierNear(i, isMin)

\* two minima are accepted, a third local minimum is dropped as a near
\* duplicate, and the lowest candle of the window is its first one
C21_Witness ==
    /\ Done("extrema")
    /\ Len(out.minima) = 2
    /\ \E i \in 4..(Len(job.ks) - 3) :
          NoneBeyond(i, TRUE) /\ EarlierNear(i, TRUE) /\ ~Accepted(i, TRUE)
    /\ \A j \in 2..Len(job.ks) : job.ks[1].Low < job.ks[j].Low

SeriesIndices(n, minIdx) ==
    {i \in 0..(n - 1) : i >= n - 10 /\ i >= minIdx}
\* the series holds, in index order, the indicator of the prefix of length i + 1
\* for exactly these indices
SeriesIs(series, name, minIdx) ==
    LET n == Len(job.ks)
        idx == SeriesIndices(n, minIdx)
    IN /\ Len(series) = Cardinality(idx)
       /\ \A k \in 1..Len(series) :
             LET i == n - Len(series) + k - 1
             IN /\ i \in idx
                /\ series[k] = Indicator(name, SubSeq(job.ks, 1, i + 1))
                /\ i + 1 >= (CASE name = "EMA20" -> 20 [] name = "MACD" -> 26
                               [] name = "RSI7" -> 8 [] OTHER -> 15)

\* C23: MidPrices holds the last min(n, 10) closes, and each indicator series
\* one value, computed on the prefix, for exactly the indices of the last-10
\* window with i >= 19 (EMA20), 25 (MACD), 7 (RSI7), 14 (RSI14); so
\* len(MACD) <= len(EMA20) <= len(RSI14) <= len(RSI7) <= len(MidPrices) <= 10
C23_SeriesLengths ==
    Done("intraday") =>
        LET n == Len(job.ks)
        IN /\ Len(out.MidPrices) = (IF n < 10 THEN n ELSE 10)
           /\ \A k \in 1..Len(out.MidPrices) :
                 out.MidPrices[k] = job.ks[n - Len(out.MidPrices) + k].Close
           /\ SeriesIs(out.EMA20Values, "EMA20", 19)
           /\ SeriesIs(out.MACDValues, "MACD", 25)
           /\ SeriesIs(out.RSI7Values, "RSI7", 7)
           /\ SeriesIs(out.RSI14Values, "RSI14", 14)
           /\ Len(out.MACDValues) <= Len(out.EMA20Values)
           /\ Len(out.EMA20Values) <= Len(out.RSI14Values)
           /\ Len(out.RSI14Values) <= Len(out.RSI7Values)
           /\ Len(out.RSI7Values) <= Len(out.MidPrices)
           /\ Len(out.MidPrices) <= 10

\* 28 candles that move: ten closes and RSI values, nine EMA20 values, three
\* MACD values
C23_Witness ==
    /\ Done("intraday")
    /\ Len(job.ks) = 28
    /\ job.ks[28].Close # job.ks[27].Close
    /\ Len(out.MidPrices) = 10
    /\ Len(out.RSI14Values) = 10
    /\ Len(out.EMA20Values) = 9
    /\ Len(out.MACDValues) = 3

(* Properties of the allow-set under a concurrent SetDefaultCoins, checked
   under SpecCoins *)

\* the allow-set before and after the SetDefaultCoins call in progress, or the
\* present set when no call is in progress
SetBefore == IF cpc = "filling" THEN job.before ELSE defaultCoins
SetAfter == IF cpc = "filling" THEN NormalizedSet(job.coins) ELSE defaultCoins

\* C24: whenever Get decides whether its symbol is eligible, the decision is the
\* one the allow-set before the SetDefaultCoins call or the allow-set after it
\* gives, also while the new set is being filled
C24_DecisionUnderOldOrNewSet ==
    [][(gpc = "oi" /\ gpc' = "funding") =>
          (glog'.oi # "excluded") \in {isInDefaultCoins(SetBefore, gin.symbol),
                                      isInDefaultCoins(SetAfter, gin.symbol)}]_vars

\* Get asked for the open interest of a symbol that neither the replaced set nor
\* the set being stored admits
C24_Witness ==
    /\ cpc = "filling"
    /\ gpc = "funding"
    /\ glog.oi \in {"ok", "failed"}
    /\ ~isInDefaultCoins(job.before, gin.symbol)
    /\ ~isInDefaultCoins(NormalizedSet(job.coins), gin.symbol)

(* Properties of the candle retrieval, checked under SpecInd *)

\* the row has its seven fields, the two timestamps are JSON numbers and the
\* five price and volume fields are numbers or strings that parse as numbers
RowDecodes(item) ==
    /\ Len(item) >= 7
    /\ item[1].t = "num"
    /\ item[7].t = "num"
    /\ \A j \in 2..6 : item[j].t = "num" \/ (item[j].t = "str" /\ item[j].v.ok)
\* the request failed, the body is not a list of rows, or a row does not decode
RetrievalFails(r) ==
    \/ r.transport # "ok"
    \/ r.read # "ok"
    \/ r.json # "ok"
    \/ \E i \in 1..Len(r.body) : ~RowDecodes(r.body[i])

\* C25: getKlines returns an error whenever the request fails, the body is not
\* a list of rows or a field of a row is not a number, and a list it returns
\* holds one candle per row with every field decoded
C25_FailsExplicitly ==
    Done("klines") =>
        /\ RetrievalFails(job.resp) => out.kind = "err"
        /\ out.kind = "ok" =>
              /\ Len(out.klines) = Len(job.resp.body)
              /\ \A i \in 1..Len(job.resp.body) : RowDecodes(job.resp.body[i])

\* a list was returned although the close of its second row is no number: the
\* candle holds 0 there
C25_Witness ==
    /\ Done("klines")
    /\ out.kind = "ok"
    /\ Len(job.resp.body) = 2
    /\ job.resp.body[2][5] = JStr(BadStr)
    /\ out.klines[2].Close = 0

(* Locking of the open-interest cache *)

\* inside the exclusive section: from taking the lock to the return
InExclusive(p) == pc[p] \in {"wcheck", "inflight", "parse", "settime"}

\* C26: at most one upstream call is in flight; a goroutine is in the exclusive
\* section, where the call is made and table and timestamp are written, only as
\* the holder of the exclusive lock; nobody holds the read lock, under which the
\* fast path reads, while the exclusive lock is held; and every step that makes a
\* call or changes the table or the timestamp is taken by the holder
C26_OneCallUnderTheLock ==
    /\ [](/\ Cardinality({p \in Procs : Calling(p)}) <= 1
          /\ \A p \in Procs : InExclusive(p) <=> mu.writer = p
          /\ \A p \in Procs : pc[p] = "rcheck" <=> p \in mu.readers
          /\ mu.writer # NoProc => mu.readers = {})
    /\ [][(\/ calls' # calls
           \/ hyperliquidOICache' # hyperliquidOICache
           \/ hyperliquidOICacheTime' # hyperliquidOICacheTime)
          => (mu.writer # NoProc /\ InExclusive(mu.writer))]_vars

\* two goroutines hold the read lock together after a call was made in this run
C26_Witness ==
    \E p, q \in Procs :
        /\ p # q
        /\ {p, q} \subseteq mu.readers
        /\ pc[p] = "rcheck" /\ pc[q] = "rcheck"
        /\ calls >= 1

\* C27: every lookup that was entered returns; a goroutine asking for the
\* exclusive lock holds no read lock, and a goroutine that has returned holds
\* neither lock
C27_EveryLookupReturns ==
    /\ \A p \in Procs : (pc[p] # "idle") ~> (pc[p] = "done")
    /\ [](\A p \in Procs :
            /\ pc[p] = "lock" => p \notin mu.readers /\ mu.writer # p
            /\ pc[p] = "done" => p \notin mu.readers /\ mu.writer # p)

\* a goroutine has returned an error from the refresh while another waits for
\* the exclusive lock, which is free
C27_Witness ==
    \E p, q \in Procs :
        /\ pc[p] = "done" /\ path[p] = "error"
        /\ pc[q] = "lock"
        /\ mu.writer = NoProc

RECURSIVE SeqSum(_)
SeqSum(s) == IF Len(s) = 0 THEN 0 ELSE Head(s) + SeqSum(Tail(s))

\* C28: on levels with positive prices and scores mergeNearbyLevels keeps the
\* total Strength and the total Score, returns the levels in ascending Price
\* order with every Price within the range of the input prices and any two
\* farther apart than the tolerance, and merging its result again changes nothing
C28_MergeConserves ==
    Done("mergeList") =>
        LET given == job.levels
            merged == out.levels
        IN /\ SeqSum([i \in 1..Len(merged) |-> merged[i].Strength])
                 = SeqSum([i \in 1..Len(given) |-> given[i].Strength])
           /\ SeqSum([i \in 1..Len(merged) |-> merged[i].Score])
                 = SeqSum([i \in 1..Len(given) |-> given[i].Score])
           /\ Len(given) > 0 => Len(merged) > 0
           /\ \A i \in 1..Len(merged) :
                 /\ \E j \in 1..Len(given) : given[j].Price <= merged[i].Price
                 /\ \E j \in 1..Len(given) : given[j].Price >= merged[i].Price
                 /\ \A k \in (i + 1)..Len(merged) :
                       /\ merged[i].Price < merged[k].Price
                       /\ ~WithinTolerance(merged[i].Price, merged[k].Price)
           /\ mergeNearbyLevels(merged) = merged

\* three levels given out of price order, each within tolerance of the next in
\* price, of which the lower two merged and the third stayed apart
C28_Witness ==
    /\ Done("mergeList")
    /\ Len(job.levels) = 3
    /\ job.levels[1].Price = 100300
    /\ job.levels[2].Price = 100000
    /\ job.levels[3].Price = 100150
    /\ Len(out.levels) = 2
    /\ out.levels[1].Strength = job.levels[2].Strength + job.levels[3].Strength

\* ---------------------------------------------------------------------------
\* Decision validation and market data collection (package decision)
\* ---------------------------------------------------------------------------
\* validateDecision works on float64 prices.  StopLoss and TakeProfit are
\* counted here in steps of the float64 spacing around them (neighbouring
\* representable values are one step apart), so that the rounding of the
\* assumed entry price to a representable value is part of the model; money is
\* in whole USD.
MaxGap == 12

ValidActions == {"open_long", "open_short", "close_long", "close_short", "hold", "wait"}

\* variant: the fifth of the gap is cut off instead of rounded to the nearest step
RoundFifth_CutOff(n) == n \div 5

\* n * 0.2 added to a representable value lands on the nearest one; a fifth of a
\* whole number of steps is never half-way between two
RoundFifth(n) == (2 * n + 5) \div 10

entryPrice(d) ==
    IF d.Action = "open_long"
    THEN d.StopLoss + RoundFifth(d.TakeProfit - d.StopLoss)
    ELSE d.StopLoss - RoundFifth(d.StopLoss - d.TakeProfit)

\* numerators of riskPercent and rewardPercent; both are divided by the same
\* positive entryPrice and multiplied by 100
RiskOf(d) ==
    IF d.Action = "open_long" THEN entryPrice(d) - d.StopLoss ELSE d.StopLoss - entryPrice(d)
RewardOf(d) ==
    IF d.Action = "open_long" THEN d.TakeProfit - entryPrice(d) ELSE entryPrice(d) - d.TakeProfit

\* in thousandths; 0 when riskPercent is not positive
riskRewardRatio(d) ==
    IF RiskOf(d) > 0 THEN (RewardOf(d) * 1000) \div RiskOf(d) ELSE 0

\* riskRewardRatio < 3.0; when the exact quotient is 3 the float64 quotient of
\* the two rounded percentages comes out on either side of it (low)
RatioTooLow(d, low) ==
    \/ RiskOf(d) <= 0
    \/ RewardOf(d) < 3 * RiskOf(d)
    \/ RewardOf(d) = 3 * RiskOf(d) /\ low

IsMajor(symbol) == symbol \in {"BTCUSDT", "ETHUSDT"}

\* the error returned, "nil" for none
validateDecision(d, accountEquity, btcEthLeverage, altcoinLeverage, availableBalance, low) ==
    LET maxLeverage == IF IsMajor(d.Symbol) THEN btcEthLeverage ELSE altcoinLeverage
        \* accountEquity * 10 or accountEquity * 1.5, doubled
        maxPositionValue2 == IF IsMajor(d.Symbol) THEN accountEquity * 20 ELSE accountEquity * 3
    IN IF d.Action \notin ValidActions THEN "action"
       ELSE IF d.Action \notin {"open_long", "open_short"} THEN "nil"
       ELSE IF d.Leverage <= 0 \/ d.Leverage > maxLeverage THEN "leverage"
       ELSE IF d.PositionSizeUSD <= 0 THEN "size"
       ELSE IF d.PositionSizeUSD > availableBalance * d.Leverage THEN "margin"
       ELSE IF availableBalance <= 0 THEN "balance"
       \* PositionSizeUSD > maxPositionValue + maxPositionValue * 0.01
       ELSE IF d.PositionSizeUSD * 200 > maxPositionValue2 * 101 THEN "value"
       ELSE IF d.StopLoss <= 0 \/ d.TakeProfit <= 0 THEN "stops"
       ELSE IF d.Action = "open_long" /\ d.StopLoss >= d.TakeProfit THEN "order"
       ELSE IF d.Action # "open_long" /\ d.StopLoss <= d.TakeProfit THEN "order"
       ELSE IF RatioTooLow(d, low) THEN "ratio"
       ELSE "nil"

\* symbol, leverage, position size and available balance of the decisions tried:
\* two that pass the sizing checks and one for each sizing error
Sizings ==
    {<<"SOLUSDT", 5, 100, 500>>, <<"BTCUSDT", 10, 2000, 500>>, <<"SOLUSDT", 20, 100, 500>>,
     <<"SOLUSDT", 5, 0, 500>>, <<"SOLUSDT", 5, 2000, 500>>, <<"SOLUSDT", 5, 2000, 50>>}
StopPrices == {0} \cup {1000000 + g : g \in 0..MaxGap}
ValidateJobs ==
    {[kind |-> "validate",
      d |-> [Symbol |-> q[1][1], Action |-> q[2], Leverage |-> q[1][2],
             PositionSizeUSD |-> q[1][3], StopLoss |-> q[3], TakeProfit |-> q[4]],
      accountEquity |-> 1000, btcEthLeverage |-> 10, altcoinLeverage |-> 5,
      availableBalance |-> q[1][4]] :
        q \in Sizings \X {"open_long", "open_short", "close_long", "hold", "buy"}
                \X StopPrices \X StopPrices}

ApplyValidate ==
    /\ cpc = "ready"
    /\ job.kind = "validate"
    /\ \E low \in BOOLEAN :
          out' = [err |-> validateDecision(job.d, job.accountEquity, job.btcEthLeverage,
                                            job.altcoinLeverage, job.availableBalance, low),
                  ratio |-> riskRewardRatio(job.d)]
    /\ cpc' = "done"
    /\ UNCHANGED <<job, oiVars, getVars>>

\* fetchMarketDataForContext.  What market.Get hands back for a symbol is an
\* input: an error (a candle request failed), a panic (the 3m request came back
\* empty, Get indexes its last element) or a snapshot, whose OpenInterest Get
\* never leaves nil and whose CurrentPrice is the last 3m close, 0 when that
\* field did not parse.  Latest * CurrentPrice is in USD.
GetErr == [kind |-> "err"]
GetPanic == [kind |-> "panic"]
Snapshot(latest, price) ==
    [kind |-> "data", OpenInterest |-> [Latest |-> latest], CurrentPrice |-> price]
GetOutcomes ==
    {GetErr, GetPanic, Snapshot(0, 100000), Snapshot(149, 100000), Snapshot(150, 100000),
     Snapshot(200, 0)}
ContextSymbols == {"BTCUSDT", "SOLUSDT", "DOGEUSDT"}
FetchJobs ==
    {[kind |-> "fetch", Positions |-> q[1], CandidateCoins |-> q[2],
      CoinWhitelistEnabled |-> q[3][1], CoinWhitelist |-> q[3][2], get |-> q[4]] :
        q \in {<<>>, <<"BTCUSDT">>, <<"BTCUSDT", "SOLUSDT">>}
                \X {<<>>, <<"SOLUSDT">>, <<"SOLUSDT", "DOGEUSDT">>, <<"DOGEUSDT", "BTCUSDT">>}
                \X {<<FALSE, <<>>>>, <<TRUE, <<"SOLUSDT">>>>, <<TRUE, <<>>>>}
                \X [ContextSymbols -> GetOutcomes]}

calculateMaxCandidates(ctx) == Len(ctx.CandidateCoins)

isCoinInWhitelist(coin, whitelist) == \E i \in 1..Len(whitelist) : whitelist[i] = coin

positionSymbols(ctx) == {ctx.Positions[i] : i \in 1..Len(ctx.Positions)}

symbolSet(ctx) ==
    positionSymbols(ctx)
      \cup {ctx.CandidateCoins[i] :
              i \in {k \in 1..Len(ctx.CandidateCoins) :
                        /\ k <= calculateMaxCandidates(ctx)
                        /\ ctx.CoinWhitelistEnabled
                              => isCoinInWhitelist(ctx.CandidateCoins[k], ctx.CoinWhitelist)}}

\* the liquidity filter skips the symbol
BelowLiquidity(ctx, symbol, data) ==
    /\ symbol \notin positionSymbols(ctx)
    /\ data.OpenInterest # NilPtr
    /\ data.CurrentPrice > 0
    /\ data.OpenInterest.Latest * data.CurrentPrice < 15 * 1000000

\* the maps are made and the symbols collected
FetchCollect ==
    /\ cpc = "ready"
    /\ job.kind = "fetch"
    /\ out' = [MarketDataMap |-> [s \in {} |-> GetErr], pending |-> symbolSet(job),
               err |-> "running"]
    /\ cpc' = "fetching"
    /\ UNCHANGED <<job, oiVars, getVars>>

\* one round of the loop over symbolSet, whose order the map iteration chooses
FetchSymbol(symbol) ==
    /\ cpc = "fetching"
    /\ symbol \in out.pending
    /\ LET data == job.get[symbol]
           rest == out.pending \ {symbol}
       IN \/ /\ data.kind = "panic"
             /\ out' = [out EXCEPT !.pending = rest, !.err = "panic"]
             /\ cpc' = "panicked"
          \/ /\ data.kind = "err"
             /\ out' = [out EXCEPT !.pending = rest]
             /\ cpc' = cpc
          \/ /\ data.kind = "data"
             /\ BelowLiquidity(job, symbol, data)
             /\ out' = [out EXCEPT !.pending = rest]
             /\ cpc' = cpc
          \/ /\ data.kind = "data"
             /\ ~BelowLiquidity(job, symbol, data)
             /\ out' = [out EXCEPT !.pending = rest,
                                   !.MarketDataMap =
                                       [s \in DOMAIN out.MarketDataMap \cup {symbol} |->
                                           IF s = symbol THEN data ELSE out.MarketDataMap[s]]]
             /\ cpc' = cpc
    /\ UNCHANGED <<job, oiVars, getVars>>

FetchReturn ==
    /\ cpc = "fetching"
    /\ out.pending = {}
    /\ out' = [out EXCEPT !.err = "nil"]
    /\ cpc' = "done"
    /\ UNCHANGED <<job, oiVars, getVars>>

InitDec ==
    /\ \E c \in InitialCaches : hyperliquidOICache = c[1] /\ hyperliquidOICacheTime = c[2]
    /\ mu = [readers |-> {}, writer |-> NoProc]
    /\ now = StartTime
    /\ pc = [p \in Procs |-> "idle"]
    /\ sym = [p \in Procs |-> Normalize(BTC)]
    /\ respIdx = [p \in Procs |-> 0]
    /\ result = [p \in Procs |-> NoResult]
    /\ calls = 0
    /\ everFailed = FALSE
    /\ failedSince = FALSE
    /\ lastInstalled = <<hyperliquidOICache, hyperliquidOICacheTime>>
    /\ missed = FALSE
    /\ afterFail = [p \in Procs |-> FALSE]
    /\ path = [p \in Procs |-> "none"]
    /\ defaultCoins = {}
    /\ gpc = "idle"
    /\ gin = [symbol |-> Normalize(BTC), exchange |-> "binance"]
    /\ klines = NoKlines
    /\ oiData = NilPtr
    /\ ret = NoRet
    /\ glog = NoLog
    /\ \/ job \in ValidateJobs
       \/ job \in FetchJobs
    /\ cpc = "ready"
    /\ out = NoJob

NextDec ==
    \/ ApplyValidate
    \/ FetchCollect
    \/ \E symbol \in ContextSymbols : FetchSymbol(symbol)
    \/ FetchReturn

SpecDec == InitDec /\ [][NextDec]_vars

\* the decision got as far as the risk/reward check
ReachedRatioCheck == Done("validate") /\ job.d.Action \in {"open_long", "open_short"}
                        /\ out.err \in {"ratio", "nil"}
\* steps between StopLoss and TakeProfit
GapOf(d) == IF d.TakeProfit >= d.StopLoss THEN d.TakeProfit - d.StopLoss
            ELSE d.StopLoss - d.TakeProfit

LiquidSymbols(ctx) ==
    {s \in symbolSet(ctx) :
        /\ ctx.get[s].kind = "data"
        /\ \/ s \in positionSymbols(ctx)
           \/ ctx.get[s].OpenInterest.Latest * ctx.get[s].CurrentPrice >= 15 * 1000000}

\* C30: once fetchMarketDataForContext is over it has returned no error and
\* MarketDataMap holds exactly the collected symbols whose Get succeeded and
\* which are an existing position or have an open-interest value of at least 15
\* million USD, whatever the order of the fetches
C30_ExactlyTheLiquidSymbols ==
    (job.kind = "fetch" /\ cpc \in {"done", "panicked"}) =>
        /\ out.err = "nil"
        /\ DOMAIN out.MarketDataMap = LiquidSymbols(job)

\* a candidate whose snapshot has no positive price was kept although its
\* open-interest value is 0
C30_Witness ==
    /\ Done("fetch")
    /\ \E s \in DOMAIN out.MarketDataMap :
          /\ s \notin positionSymbols(job)
          /\ job.get[s].CurrentPrice = 0

============================================================================
